---- MODULE Spec2Model ----
(***************************************************************************)
(* A model of the GameChanger scraping and aggregation pipeline of         *)
(* aces-analytics: the schedule scraper and its SQL tables, the box-score  *)
(* extra-stats merge, the team aggregators and the team-hitting summary.   *)
(*                                                                         *)
(* Text taken from a page is a sequence of one-character strings, so that  *)
(* the parsing the code does (prefix tests, splitting, int()) is computed  *)
(* and not assumed.  Identifiers the code only concatenates and compares   *)
(* (team ids, dates, game ids) are strings.                                *)
(***************************************************************************)
EXTENDS Integers, Sequences, FiniteSets, TLC

VARIABLES
    page,                 \* the schedule page the site serves now
    GCGamesTmp4,          \* the games table: a set of rows, GameID the key
    GCBattingStatsTmp4,   \* the batting table, in insertion (identity) order
    GCPitchingStatsTmp4,  \* the pitching table, in insertion (identity) order
    prog,                 \* the scraper that is running, "" when none is
    pc,                   \* its position: idle, schedule, game, box
    url_i,                \* the index of the schedule url being scraped
    games,                \* the descriptors parse_schedule_page returned
    g_i,                  \* the index of the descriptor being processed
    runs,                 \* the number of runs started
    derived,              \* every game id derived so far, with its inputs
    game_insert,          \* the outcome of the last games INSERT
    all_games,            \* the Game list the threat-board scraper collected
    lineup,               \* a box-score container handed to the stat merge
    GCTeams,              \* the teams table: a set of rows, TeamID the key
    TOURNAMENT_TEAMS,     \* the roster the tournament views are built from
    result                \* what the last reader operation returned

scraperVars ==
    <<page, GCGamesTmp4, GCBattingStatsTmp4, GCPitchingStatsTmp4, prog, pc,
      url_i, games, g_i, runs, derived, game_insert>>

\* what the readers read besides the tables
inputs == <<all_games, lineup, GCTeams, TOURNAMENT_TEAMS>>

readerVars == <<inputs, result>>

vars == <<scraperVars, readerVars>>

(***************************************************************************)
(* Optional values.  The optional integers of the program (scores, pitch   *)
(* counts) are never negative, so Python None / SQL NULL is modelled by a  *)
(* negative number; the optional strings by a string no page contains.     *)
(***************************************************************************)
NULL == -1
NoneStr == "None"

\* `x or 0` for an optional integer
Or0(x) == IF x = NULL THEN 0 ELSE x

(***************************************************************************)
(* Python text primitives                                                  *)
(***************************************************************************)
Digits == <<"0", "1", "2", "3", "4", "5", "6", "7", "8", "9">>

IsDigit(c) == \E i \in 1..10 : Digits[i] = c

DigitVal(c) == (CHOOSE i \in 1..10 : Digits[i] = c) - 1

IsSpace(c) == c \in {" ", "\t", "\n"}

RECURSIVE LStrip(_)
LStrip(s) == IF s # <<>> /\ IsSpace(Head(s)) THEN LStrip(Tail(s)) ELSE s

RECURSIVE RStrip(_)
RStrip(s) ==
    IF s # <<>> /\ IsSpace(s[Len(s)]) THEN RStrip(SubSeq(s, 1, Len(s) - 1)) ELSE s

\* str.strip()
Strip(s) == RStrip(LStrip(s))

\* str.startswith(p)
StartsWith(s, p) == Len(s) >= Len(p) /\ SubSeq(s, 1, Len(p)) = p

\* s[n:]
DropFirst(s, n) == IF n >= Len(s) THEN <<>> ELSE SubSeq(s, n + 1, Len(s))

\* str.split(sep) for a one-character separator
RECURSIVE SplitAcc(_, _, _)
SplitAcc(s, sep, cur) ==
    IF s = <<>> THEN <<cur>>
    ELSE IF Head(s) = sep THEN <<cur>> \o SplitAcc(Tail(s), sep, <<>>)
    ELSE SplitAcc(Tail(s), sep, Append(cur, Head(s)))

Split(s, sep) == SplitAcc(s, sep, <<>>)

RECURSIVE DigitsVal(_)
DigitsVal(s) ==
    IF s = <<>> THEN 0
    ELSE 10 * DigitsVal(SubSeq(s, 1, Len(s) - 1)) + DigitVal(s[Len(s)])

AllDigits(s) == s # <<>> /\ \A i \in 1..Len(s) : IsDigit(s[i])

\* int(text): surrounding whitespace and one sign are accepted; anything
\* else raises ValueError (ok = FALSE).
PyInt(s) ==
    LET t    == Strip(s)
        neg  == t # <<>> /\ Head(t) = "-"
        body == IF t # <<>> /\ Head(t) \in {"+", "-"} THEN Tail(t) ELSE t
    IN  IF AllDigits(body)
        THEN [ok |-> TRUE, val |-> IF neg THEN 0 - DigitsVal(body) ELSE DigitsVal(body)]
        ELSE [ok |-> FALSE, val |-> 0]

\* "".join(chars): the text as a string
RECURSIVE Join(_)
Join(s) == IF s = <<>> THEN "" ELSE Head(s) \o Join(Tail(s))

\* str.replace(a, b) for one-character a and b
ReplaceChar(s, a, b) == [i \in 1..Len(s) |-> IF s[i] = a THEN b ELSE s[i]]

UpperLetters ==
    <<"A", "B", "C", "D", "E", "F", "G", "H", "I", "J", "K", "L", "M",
      "N", "O", "P", "Q", "R", "S", "T", "U", "V", "W", "X", "Y", "Z">>

LowerLetters ==
    <<"a", "b", "c", "d", "e", "f", "g", "h", "i", "j", "k", "l", "m",
      "n", "o", "p", "q", "r", "s", "t", "u", "v", "w", "x", "y", "z">>

LowerChar(c) ==
    IF \E i \in 1..26 : UpperLetters[i] = c
    THEN LowerLetters[CHOOSE i \in 1..26 : UpperLetters[i] = c]
    ELSE c

\* str.lower()
Lower(s) == [i \in 1..Len(s) |-> LowerChar(s[i])]

\* re.sub(r"\s+", " ", t): every whitespace run becomes one space
RECURSIVE CollapseSpaces(_)
CollapseSpaces(s) ==
    IF s = <<>> THEN <<>>
    ELSE IF IsSpace(Head(s))
         THEN <<" ">> \o CollapseSpaces(LStrip(s))
         ELSE <<Head(s)>> \o CollapseSpaces(Tail(s))

\* normalize_text(t) (scrape_gc_schedules.py)
normalize_text(t) == Strip(CollapseSpaces(t))

(***************************************************************************)
(* The schedule page, as the parsers see it.  A page is a sequence of      *)
(* month sections [title, rows]; a day row is [day, events]; an event link *)
(* is [href, title, score].  A missing element and an empty text take the  *)
(* same branch in the code, so a missing section title is title = <<>>, a  *)
(* missing section body is rows = <<>>, a missing date cell is day = <<>>, *)
(* a missing href is href = "" and a missing title or score element is the *)
(* empty text.                                                             *)
(***************************************************************************)
MonthNames ==
    <<"January", "February", "March", "April", "May", "June", "July",
      "August", "September", "October", "November", "December">>

\* the month number of a month name, 0 when it is none
MonthNum(name) ==
    IF \E i \in 1..12 : MonthNames[i] = name
    THEN CHOOSE i \in 1..12 : MonthNames[i] = name
    ELSE 0

\* datetime.strptime(month_year, "%B %Y"): a full month name, whitespace
\* and a four-digit year; ok = FALSE for ValueError
StrpMonthYear(month_year) ==
    LET parts == Split(normalize_text(month_year), " ")
    IN  IF /\ Len(parts) = 2
           /\ MonthNum(Join(parts[1])) # 0
           /\ Len(parts[2]) = 4
           /\ AllDigits(parts[2])
        THEN [ok |-> TRUE, month |-> MonthNum(Join(parts[1])),
              year |-> DigitsVal(parts[2])]
        ELSE [ok |-> FALSE, month |-> 0, year |-> 0]

IsLeap(y) == (y % 4 = 0 /\ y % 100 # 0) \/ y % 400 = 0

DaysInMonth(y, m) ==
    IF m = 2 THEN (IF IsLeap(y) THEN 29 ELSE 28)
    ELSE IF m \in {4, 6, 9, 11} THEN 30 ELSE 31

\* datetime(year, month, day) raises ValueError unless the day exists
ValidDate(y, m, d) == y >= 1 /\ m \in 1..12 /\ d >= 1 /\ d <= DaysInMonth(y, m)

Pad2(n) == IF n < 10 THEN "0" \o ToString(n) ELSE ToString(n)

\* .strftime("%Y-%m-%d")
FormatDate(y, m, d) == ToString(y) \o "-" \o Pad2(m) \o "-" \o Pad2(d)

GC_BASE == "https://web.gc.com"

\* home_or_away of an event title (gcscraper parse_schedule_page)
HomeOrAwayOf(event_title) ==
    IF StartsWith(event_title, <<"v", "s", ".">>) THEN "HOME"
    ELSE IF StartsWith(event_title, <<"@">>) THEN "AWAY"
    ELSE NoneStr

\* a parse that keeps the first number when the second is not one
ParseScoreHalf(score_text) ==
    IF score_text # <<>> /\ (StartsWith(score_text, <<"W", " ">>)
                             \/ StartsWith(score_text, <<"L", " ">>))
    THEN LET parts == Split(DropFirst(score_text, 2), "-")
         IN  IF Len(parts) = 2 /\ PyInt(parts[1]).ok
             THEN [our |-> PyInt(parts[1]).val,
                   opp |-> IF PyInt(parts[2]).ok THEN PyInt(parts[2]).val ELSE NULL]
             ELSE [our |-> NULL, opp |-> NULL]
    ELSE [our |-> NULL, opp |-> NULL]

\* (our_score, opp_score) of a score-or-time text
ParseScore(score_text) ==
    IF score_text # <<>> /\ (StartsWith(score_text, <<"W", " ">>)
                             \/ StartsWith(score_text, <<"L", " ">>))
    THEN LET parts == Split(DropFirst(score_text, 2), "-")
         IN  IF Len(parts) = 2 /\ PyInt(parts[1]).ok /\ PyInt(parts[2]).ok
             THEN [our |-> PyInt(parts[1]).val, opp |-> PyInt(parts[2]).val]
             ELSE [our |-> NULL, opp |-> NULL]
    ELSE [our |-> NULL, opp |-> NULL]

\* one descriptor per event link with an href
RECURSIVE ParseEvents(_, _)
ParseEvents(events, full_date) ==
    IF events = <<>> THEN <<>>
    ELSE LET link == Head(events)
             sc   == ParseScore(link.score)
         IN  (IF link.href = "" THEN <<>>
              ELSE <<[game_date     |-> full_date,
                      box_score_url |-> GC_BASE \o link.href,
                      home_or_away  |-> HomeOrAwayOf(link.title),
                      our_score     |-> sc.our,
                      opp_score     |-> sc.opp]>>)
             \o ParseEvents(Tail(events), full_date)

\* the day rows of one section; ok = FALSE when datetime() raised
RECURSIVE ParseDayRows(_, _, _)
ParseDayRows(rows, y, m) ==
    IF rows = <<>> THEN [ok |-> TRUE, games |-> <<>>]
    ELSE LET day_row == Head(rows)
             day_num == PyInt(day_row.day)
             rest    == ParseDayRows(Tail(rows), y, m)
         IN  IF ~day_num.ok THEN rest
             ELSE IF ~ValidDate(y, m, day_num.val) THEN [ok |-> FALSE, games |-> <<>>]
             ELSE IF ~rest.ok THEN rest
             ELSE [ok    |-> TRUE,
                   games |-> ParseEvents(day_row.events,
                                         FormatDate(y, m, day_num.val)) \o rest.games]

\* parse_schedule_page(html, team_id) of the gcscraper: the descriptors in
\* page order, or ok = FALSE when an exception leaves the function
RECURSIVE parse_schedule_page(_)
parse_schedule_page(html) ==
    IF html = <<>> THEN [ok |-> TRUE, games |-> <<>>]
    ELSE LET sec      == Head(html)
             month_dt == StrpMonthYear(sec.title)
             rest     == parse_schedule_page(Tail(html))
         IN  IF ~month_dt.ok \/ sec.rows = <<>> THEN rest
             ELSE LET here == ParseDayRows(sec.rows, month_dt.year, month_dt.month)
                  IN  IF ~here.ok \/ ~rest.ok THEN [ok |-> FALSE, games |-> <<>>]
                      ELSE [ok |-> TRUE, games |-> here.games \o rest.games]

(***************************************************************************)
(* difflib, as get_close_matches uses it (no junk; the popularity          *)
(* heuristic needs 200 characters and never applies to a name).            *)
(***************************************************************************)
Alphabet ==
    <<" ", "#", "(", ")", "+", ",", "-", ".">> \o Digits \o <<":", "@">>
    \o UpperLetters \o <<"_">> \o LowerLetters

\* code-point order of the characters the pages use
Ord(c) == CHOOSE i \in 1..Len(Alphabet) : Alphabet[i] = c

Min(a, b) == IF a <= b THEN a ELSE b

\* a < b for Python strings
RECURSIVE StrLess(_, _)
StrLess(a, b) ==
    IF b = <<>> THEN FALSE
    ELSE IF a = <<>> THEN TRUE
    ELSE IF Head(a) # Head(b) THEN Ord(Head(a)) < Ord(Head(b))
    ELSE StrLess(Tail(a), Tail(b))

\* SequenceMatcher.find_longest_match over a[alo..ahi], b[blo..bhi]: the
\* longest common block <<i, j, k>>, the earliest in a, then in b
find_longest_match(a, alo, ahi, b, blo, bhi) ==
    LET blocks == {c \in (alo..ahi) \X (blo..bhi) \X (1..Min(ahi - alo + 1, bhi - blo + 1)) :
                     /\ c[1] + c[3] - 1 <= ahi
                     /\ c[2] + c[3] - 1 <= bhi
                     /\ \A t \in 0..(c[3] - 1) : a[c[1] + t] = b[c[2] + t]}
    IN  IF blocks = {} THEN <<alo, blo, 0>>
        ELSE CHOOSE c \in blocks : \A d \in blocks :
                \/ c[3] > d[3]
                \/ c[3] = d[3] /\ c[1] < d[1]
                \/ c[3] = d[3] /\ c[1] = d[1] /\ c[2] <= d[2]

\* the total size of SequenceMatcher.get_matching_blocks()
RECURSIVE MatchCount(_, _, _, _, _, _)
MatchCount(a, alo, ahi, b, blo, bhi) ==
    IF alo > ahi \/ blo > bhi THEN 0
    ELSE LET m == find_longest_match(a, alo, ahi, b, blo, bhi)
         IN  IF m[3] = 0 THEN 0
             ELSE m[3] + MatchCount(a, alo, m[1] - 1, b, blo, m[2] - 1)
                       + MatchCount(a, m[1] + m[3], ahi, b, m[2] + m[3], bhi)

\* SequenceMatcher.ratio() = 2*M/T as the pair <<2*M, T>> (1.0 when T = 0)
Ratio(a, b) ==
    IF Len(a) + Len(b) = 0 THEN <<1, 1>>
    ELSE <<2 * MatchCount(a, 1, Len(a), b, 1, Len(b)), Len(a) + Len(b)>>

CUTOFF_NUM == 6
CUTOFF_DEN == 10

\* the scored possibilities of get_close_matches: the one with the greatest
\* (ratio, string) among those at or above the cutoff, as a list of at most one
BestMatch(possibilities, r) ==
    LET close  == {i \in 1..Len(possibilities) :
                     r[i][1] * CUTOFF_DEN >= CUTOFF_NUM * r[i][2]}
        ge(i, j) == \/ r[i][1] * r[j][2] > r[j][1] * r[i][2]
                    \/ /\ r[i][1] * r[j][2] = r[j][1] * r[i][2]
                       /\ ~StrLess(possibilities[i], possibilities[j])
    IN  IF close = {} THEN <<>>
        ELSE <<possibilities[CHOOSE i \in close : \A j \in close : ge(i, j)]>>

\* difflib.get_close_matches(word, possibilities, n=1, cutoff=0.6)
get_close_matches(word, possibilities) ==
    BestMatch(possibilities,
              [i \in 1..Len(possibilities) |-> Ratio(possibilities[i], word)])

(***************************************************************************)
(* The box-score page of the gcscraper.  A page has the two team-name      *)
(* headers ("" when the element is missing) and four containers            *)
(* (awayLineup, homeLineup, awayPitching, homePitching).  A container is   *)
(* [present, rows, extra]: its grid rows and the extra-stats panel found   *)
(* after it, extra = [present, lines], a line being [label, tokens] (label *)
(* <<>> when the line has no bold label).  A grid row is                   *)
(* [first, named, name, pos, cells, missing]: whether it has a first cell  *)
(* and a player-name span, the name and position texts, the texts of the   *)
(* cells aria-colindex 2..7 and the set of those cells that are absent.    *)
(***************************************************************************)
\* the value of a conversion result, `default` when it raised
IntOr(r, default) == IF r.ok THEN r.val ELSE default

\* parse_int(value): int(value), 0 on any exception
parse_int(value) == IntOr(PyInt(value), 0)

\* str.rstrip(',')
RECURSIVE RStripComma(_)
RStripComma(s) ==
    IF s # <<>> /\ s[Len(s)] = "," THEN RStripComma(SubSeq(s, 1, Len(s) - 1)) ELSE s

\* str.strip('()')
RECURSIVE StripParens(_)
StripParens(s) ==
    IF s # <<>> /\ Head(s) \in {"(", ")"} THEN StripParens(Tail(s))
    ELSE IF s # <<>> /\ s[Len(s)] \in {"(", ")"}
         THEN StripParens(SubSeq(s, 1, Len(s) - 1))
    ELSE s

\* the text of cell aria-colindex c of a grid row
Cell(row, c) == row.cells[c - 1]

\* the rows a grid yields, in order: a row without first cell or name span
\* is passed over, a row with a missing stat cell raises inside the try
RECURSIVE BattingGrid(_, _, _, _, _, _)
BattingGrid(rows, game_id, team_id, team_name, home_or_away_flag, opponent_name) ==
    IF rows = <<>> THEN <<>>
    ELSE LET row == Head(rows)
             rest == BattingGrid(Tail(rows), game_id, team_id, team_name,
                                 home_or_away_flag, opponent_name)
         IN  IF ~row.first \/ ~row.named \/ row.missing # {} THEN rest
             ELSE <<[GameID      |-> game_id,
                     TeamID      |-> team_id,
                     TeamName    |-> team_name,
                     HomeOrAway  |-> home_or_away_flag,
                     Opponent    |-> opponent_name,
                     PlayerName  |-> Strip(row.name),
                     Position    |-> StripParens(Strip(row.pos)),
                     AB          |-> parse_int(Strip(Cell(row, 2))),
                     R           |-> parse_int(Strip(Cell(row, 3))),
                     H           |-> parse_int(Strip(Cell(row, 4))),
                     RBI         |-> parse_int(Strip(Cell(row, 5))),
                     BB          |-> parse_int(Strip(Cell(row, 6))),
                     SO          |-> parse_int(Strip(Cell(row, 7))),
                     Doubles     |-> 0,
                     Triples     |-> 0,
                     HomeRuns    |-> 0,
                     StolenBases |-> 0,
                     TotalBases  |-> 0]>> \o rest

\* whether r is whitespace followed by characters of `tail` up to the end
\* (the regex \s+X+$), and the X part
WsThen(r, tail) ==
    \E j \in 1..(Len(r) - 1) :
        /\ \A t \in 1..j : IsSpace(r[t])
        /\ \A t \in (j + 1)..Len(r) : r[t] \in tail

AfterWs(r) == LStrip(r)

DigitChars == {Digits[i] : i \in 1..10}

\* the token match with the count of a token without a number left at '0'
BattingExtraTokenZero(text) ==
    LET cuts == {k \in 1..Len(text) : WsThen(DropFirst(text, k), DigitChars)}
        k    == CHOOSE c \in cuts : \A d \in cuts : c <= d
    IN  IF text = <<>> THEN [ok |-> FALSE, raw_name |-> <<>>, count_str |-> <<>>]
        ELSE IF cuts = {}
             THEN [ok |-> TRUE, raw_name |-> Strip(text), count_str |-> <<"0">>]
             ELSE [ok |-> TRUE, raw_name |-> Strip(SubSeq(text, 1, k)),
                   count_str |-> Strip(AfterWs(DropFirst(text, k)))]

\* re.match(r"(.+?)(?:\s+(\d+))?$", text): the shortest non-empty prefix
\* followed by blank and digits, else the whole text with count '1'
BattingExtraToken(text) ==
    LET cuts == {k \in 1..Len(text) : WsThen(DropFirst(text, k), DigitChars)}
        k    == CHOOSE c \in cuts : \A d \in cuts : c <= d
    IN  IF text = <<>> THEN [ok |-> FALSE, raw_name |-> <<>>, count_str |-> <<>>]
        ELSE IF cuts = {}
             THEN [ok |-> TRUE, raw_name |-> Strip(text), count_str |-> <<"1">>]
             ELSE [ok |-> TRUE, raw_name |-> Strip(SubSeq(text, 1, k)),
                   count_str |-> Strip(AfterWs(DropFirst(text, k)))]

\* the names of the rows, in row order
NamesOf(rows, field) == [i \in 1..Len(rows) |-> rows[i][field]]

InSeq(x, seq) == \E i \in 1..Len(seq) : seq[i] = x

\* exact name, else the closest name at or above the cutoff; <<>> for none
MatchName(raw_name, names) ==
    IF InSeq(raw_name, names) THEN <<raw_name>>
    ELSE get_close_matches(raw_name, names)

\* the index of the first row whose field equals name (the loop's break)
FirstRow(rows, field, name) ==
    CHOOSE i \in 1..Len(rows) :
        rows[i][field] = name /\ \A j \in 1..(i - 1) : rows[j][field] # name

L2B == <<"2", "B">>
L3B == <<"3", "B">>
LHR == <<"H", "R">>
LSB == <<"S", "B">>
LTB == <<"T", "B">>

\* the field extract_batting assigns for a stat label, "" when it has none
BattingFieldOf(stat_label) ==
    IF stat_label = L2B THEN "Doubles"
    ELSE IF stat_label = L3B THEN "Triples"
    ELSE IF stat_label = LHR THEN "HomeRuns"
    ELSE ""

\* the parsed token of a span applied to the batting rows: the first row of
\* the matched name gets the count assigned to the label's field
BattingExtraApply(batting_stats, field, tok, match) ==
    IF ~tok.ok \/ match = <<>> \/ field = "" THEN batting_stats
    ELSE [batting_stats EXCEPT ![FirstRow(batting_stats, "PlayerName", match[1])][field] =
                                   parse_int(tok.count_str)]

BattingExtraMatch(batting_stats, field, tok) ==
    BattingExtraApply(batting_stats, field, tok,
                      IF tok.ok
                      THEN MatchName(tok.raw_name, NamesOf(batting_stats, "PlayerName"))
                      ELSE <<>>)

\* one extraPlayerStat span of a stat line applied to the batting rows
BattingExtraSpan(batting_stats, stat_label, span) ==
    BattingExtraMatch(batting_stats, BattingFieldOf(stat_label),
                      BattingExtraToken(RStripComma(Strip(span))))

RECURSIVE BattingExtraSpans(_, _, _)
BattingExtraSpans(batting_stats, stat_label, spans) ==
    IF spans = <<>> THEN batting_stats
    ELSE BattingExtraSpans(BattingExtraSpan(batting_stats, stat_label, Head(spans)),
                           stat_label, Tail(spans))

\* str.rstrip(':')
RECURSIVE RStripColon(_)
RStripColon(s) ==
    IF s # <<>> /\ s[Len(s)] = ":" THEN RStripColon(SubSeq(s, 1, Len(s) - 1)) ELSE s

RECURSIVE BattingExtraLines(_, _)
BattingExtraLines(batting_stats, lines) ==
    IF lines = <<>> THEN batting_stats
    ELSE LET line_div == Head(lines)
         IN  IF line_div.label = <<>>
             THEN BattingExtraLines(batting_stats, Tail(lines))
             ELSE BattingExtraLines(
                      BattingExtraSpans(batting_stats,
                                        RStripColon(Strip(line_div.label)),
                                        line_div.tokens),
                      Tail(lines))

\* an extractor that writes the team's own name as Opponent
extract_battingOwnName(team_container, game_id, team_id, team_name, home_or_away_flag, opponent_name) ==
    LET batting_stats == BattingGrid(team_container.rows, game_id, team_id, team_name,
                                     home_or_away_flag, team_name)
    IN  IF team_container.extra.present
        THEN BattingExtraLines(batting_stats, team_container.extra.lines)
        ELSE batting_stats

\* parse_box_score.extract_batting
extract_batting(team_container, game_id, team_id, team_name, home_or_away_flag, opponent_name) ==
    LET batting_stats == BattingGrid(team_container.rows, game_id, team_id, team_name,
                                     home_or_away_flag, opponent_name)
    IN  IF team_container.extra.present
        THEN BattingExtraLines(batting_stats, team_container.extra.lines)
        ELSE batting_stats

(***************************************************************************)
(* apply_extra_stats_from_summary (scrape_gc_schedules.py): the panels of  *)
(* the page are sequences of stat lines [label, tokens], the label being   *)
(* the first Text__text span of the line and the tokens the others.        *)
(***************************************************************************)
\* re.split(r"\(", name, 1)[0]
RECURSIVE BeforeParen(_)
BeforeParen(s) ==
    IF s = <<>> \/ Head(s) = "(" THEN <<>> ELSE <<Head(s)>> \o BeforeParen(Tail(s))

RECURSIVE DropDigits(_)
DropDigits(s) == IF s # <<>> /\ IsDigit(Head(s)) THEN DropDigits(Tail(s)) ELSE s

\* re.sub(r"#\d+", "", name)
RECURSIVE DropJersey(_)
DropJersey(s) ==
    IF s = <<>> THEN <<>>
    ELSE IF Head(s) = "#" /\ Len(s) >= 2 /\ IsDigit(s[2])
         THEN DropJersey(DropDigits(Tail(s)))
         ELSE <<Head(s)>> \o DropJersey(Tail(s))

\* clean_name(name)
clean_name(name) == normalize_text(DropJersey(BeforeParen(name)))

\* str.split(): the words between whitespace runs
Words(s) == IF normalize_text(s) = <<>> THEN <<>> ELSE Split(normalize_text(s), " ")

\* w in s, for strings
Contains(s, w) ==
    \E i \in 0..(Len(s) - Len(w)) : \A t \in 1..Len(w) : s[i + t] = w[t]

\* find_batting_rows_for_token(token_name): the indices of the rows the
\* token is credited to.  cleaned_index groups the rows with a non-empty
\* cleaned name by that name in lower case.
find_batting_rows_for_token(batting_rows, token_name) ==
    LET cname(i)    == Lower(clean_name(batting_rows[i].PlayerName))
        indexed     == {i \in 1..Len(batting_rows) : cname(i) # <<>>}
        token_clean == Lower(clean_name(token_name))
        token_words == Words(token_clean)
    IN  IF token_clean = <<>> THEN {}
        ELSE IF \E i \in indexed : cname(i) = token_clean
             THEN {i \in indexed : cname(i) = token_clean}
             ELSE {i \in indexed :
                     \A w \in 1..Len(token_words) : Contains(cname(i), token_words[w])}

label_to_field ==
    [x \in {L2B, L3B, LHR, LSB, LTB} |->
        IF x = L2B THEN "Doubles"
        ELSE IF x = L3B THEN "Triples"
        ELSE IF x = LHR THEN "HomeRuns"
        ELSE IF x = LSB THEN "StolenBases"
        ELSE "TotalBases"]

RECURSIVE DropChar(_, _)
DropChar(s, c) ==
    IF s = <<>> THEN <<>>
    ELSE IF Head(s) = c THEN DropChar(Tail(s), c)
    ELSE <<Head(s)>> \o DropChar(Tail(s), c)

\* the trailing integer of a token: re.search(r"\s+(\d+)$", tok) after one
\* trailing comma is removed; count 1 when there is none
SummaryToken(tok_text) ==
    LET t    == normalize_text(tok_text)
        tok  == IF t # <<>> /\ t[Len(t)] = "," THEN SubSeq(t, 1, Len(t) - 1) ELSE t
        cuts == {k \in 0..Len(tok) : WsThen(DropFirst(tok, k), DigitChars)}
        k    == CHOOSE c \in cuts : \A d \in cuts : c <= d
    IN  IF t = <<>> THEN [ok |-> FALSE, name_part |-> <<>>, count |-> 0]
        ELSE IF cuts = {}
             THEN [ok |-> Strip(tok) # <<>>, name_part |-> Strip(tok), count |-> 1]
             ELSE [ok        |-> Strip(SubSeq(tok, 1, k)) # <<>>,
                   name_part |-> Strip(SubSeq(tok, 1, k)),
                   count     |-> DigitsVal(LStrip(DropFirst(tok, k)))]

\* row[field_name] = (row.get(field_name) or 0) + count for every matched row
AddToRows(batting_rows, matched, field_name, count) ==
    [i \in 1..Len(batting_rows) |->
        IF i \in matched
        THEN [batting_rows[i] EXCEPT ![field_name] = Or0(@) + count]
        ELSE batting_rows[i]]

RECURSIVE SummaryTokens(_, _, _)
SummaryTokens(batting_rows, field_name, spans) ==
    IF spans = <<>> THEN batting_rows
    ELSE LET tok == SummaryToken(Head(spans))
             next == IF ~tok.ok THEN batting_rows
                     ELSE AddToRows(batting_rows,
                                    find_batting_rows_for_token(batting_rows, tok.name_part),
                                    field_name, tok.count)
         IN  SummaryTokens(next, field_name, Tail(spans))

RECURSIVE SummaryLines(_, _)
SummaryLines(batting_rows, lines) ==
    IF lines = <<>> THEN batting_rows
    ELSE LET row_div   == Head(lines)
             label_key == Strip(DropChar(normalize_text(row_div.label), ":"))
         IN  IF label_key \notin DOMAIN label_to_field
             THEN SummaryLines(batting_rows, Tail(lines))
             ELSE SummaryLines(SummaryTokens(batting_rows, label_to_field[label_key],
                                             row_div.tokens),
                               Tail(lines))

\* apply_extra_stats_from_summary(soup, batting_rows): the rows after the
\* merge of every panel of the page
RECURSIVE apply_extra_stats_from_summary(_, _)
apply_extra_stats_from_summary(panels, batting_rows) ==
    IF batting_rows = <<>> \/ panels = <<>> THEN batting_rows
    ELSE apply_extra_stats_from_summary(Tail(panels),
                                        SummaryLines(batting_rows, Head(panels)))

(***************************************************************************)
(* parse_box_score.extract_pitching and parse_box_score of the gcscraper   *)
(***************************************************************************)
RECURSIVE PitchingGrid(_, _, _, _, _, _)
PitchingGrid(rows, game_id, team_id, team_name, home_or_away_flag, opponent_name) ==
    IF rows = <<>> THEN <<>>
    ELSE LET row == Head(rows)
             rest == PitchingGrid(Tail(rows), game_id, team_id, team_name,
                                  home_or_away_flag, opponent_name)
         IN  IF ~row.first \/ ~row.named \/ row.missing # {} THEN rest
             ELSE <<[GameID        |-> game_id,
                     TeamID        |-> team_id,
                     TeamName      |-> team_name,
                     HomeOrAway    |-> home_or_away_flag,
                     Opponent      |-> opponent_name,
                     PitcherName   |-> Strip(row.name),
                     IP            |-> Strip(Cell(row, 2)),
                     HAllowed      |-> parse_int(Strip(Cell(row, 3))),
                     RAllowed      |-> parse_int(Strip(Cell(row, 4))),
                     ERAllowed     |-> parse_int(Strip(Cell(row, 5))),
                     BBAllowed     |-> parse_int(Strip(Cell(row, 6))),
                     Strikeouts    |-> parse_int(Strip(Cell(row, 7))),
                     PitchesThrown |-> NULL,
                     StrikesThrown |-> NULL,
                     BattersFaced  |-> NULL]>> \o rest

\* re.match(r"(.+?)\s+([0-9\-]+)$", text)
PitchingExtraToken(text) ==
    LET cuts == {k \in 1..Len(text) : WsThen(DropFirst(text, k), DigitChars \cup {"-"})}
        k    == CHOOSE c \in cuts : \A d \in cuts : c <= d
    IN  IF cuts = {} THEN [ok |-> FALSE, raw_name |-> <<>>, count_str |-> <<>>]
        ELSE [ok |-> TRUE, raw_name |-> Strip(SubSeq(text, 1, k)),
              count_str |-> Strip(DropFirst(text, k))]

RECURSIVE LeadingDigits(_)
LeadingDigits(s) ==
    IF s # <<>> /\ IsDigit(Head(s)) THEN <<Head(s)>> \o LeadingDigits(Tail(s)) ELSE <<>>

\* re.search(r"(\d+)-(\d+)", clean): the leftmost digits-dash-digits
RECURSIVE SearchPitchesStrikes(_)
SearchPitchesStrikes(s) ==
    IF s = <<>> THEN [pitches |-> NULL, strikes |-> NULL]
    ELSE LET run  == LeadingDigits(s)
             rest == DropFirst(s, Len(run))
         IN  IF /\ run # <<>>
                /\ Len(rest) >= 2
                /\ rest[1] = "-"
                /\ IsDigit(rest[2])
             THEN [pitches |-> DigitsVal(run),
                   strikes |-> DigitsVal(LeadingDigits(Tail(rest)))]
             ELSE SearchPitchesStrikes(Tail(s))

\* the pitch counts with 0 and 0 for a value without the pattern
parse_pitches_strikesZero(count_str) ==
    IF SearchPitchesStrikes(RStripComma(Strip(count_str))).pitches = NULL
    THEN [pitches |-> 0, strikes |-> 0]
    ELSE SearchPitchesStrikes(RStripComma(Strip(count_str)))

\* parse_pitches_strikes(count_str)
parse_pitches_strikes(count_str) == SearchPitchesStrikes(RStripComma(Strip(count_str)))

LPS == <<"P", "i", "t", "c", "h", "e", "s", "-", "S", "t", "r", "i", "k", "e", "s">>
LBattersFaced == <<"B", "a", "t", "t", "e", "r", "s", " ", "F", "a", "c", "e", "d">>
LBF == <<"B", "F">>

\* row i of the pitching rows after a stat line's value: the pitch counts ps
\* of a Pitches-Strikes line, the converted count bf of a batters-faced line
PitchingExtraSet(pitching_stats, stat_label, i, ps, bf) ==
    IF stat_label = LPS
    THEN IF ps.pitches # NULL /\ ps.strikes # NULL
         THEN [pitching_stats EXCEPT ![i].PitchesThrown = ps.pitches,
                                     ![i].StrikesThrown = ps.strikes]
         ELSE pitching_stats
    ELSE IF stat_label \in {LBattersFaced, LBF}
    THEN IF bf.ok
         THEN [pitching_stats EXCEPT ![i].BattersFaced = bf.val]
         ELSE pitching_stats
    ELSE pitching_stats

PitchingExtraApply(pitching_stats, stat_label, tok, match) ==
    IF ~tok.ok \/ match = <<>> THEN pitching_stats
    ELSE PitchingExtraSet(pitching_stats, stat_label,
                          FirstRow(pitching_stats, "PitcherName", match[1]),
                          parse_pitches_strikes(tok.count_str), PyInt(tok.count_str))

PitchingExtraMatch(pitching_stats, stat_label, tok) ==
    PitchingExtraApply(pitching_stats, stat_label, tok,
                       IF tok.ok
                       THEN MatchName(tok.raw_name, NamesOf(pitching_stats, "PitcherName"))
                       ELSE <<>>)

\* one extraPlayerStat span of a pitching stat line
PitchingExtraSpan(pitching_stats, stat_label, span) ==
    PitchingExtraMatch(pitching_stats, stat_label,
                       PitchingExtraToken(RStripComma(Strip(span))))

RECURSIVE PitchingExtraSpans(_, _, _)
PitchingExtraSpans(pitching_stats, stat_label, spans) ==
    IF spans = <<>> THEN pitching_stats
    ELSE PitchingExtraSpans(PitchingExtraSpan(pitching_stats, stat_label, Head(spans)),
                            stat_label, Tail(spans))

RECURSIVE PitchingExtraLines(_, _)
PitchingExtraLines(pitching_stats, lines) ==
    IF lines = <<>> THEN pitching_stats
    ELSE LET line_div == Head(lines)
         IN  IF line_div.label = <<>>
             THEN PitchingExtraLines(pitching_stats, Tail(lines))
             ELSE PitchingExtraLines(
                      PitchingExtraSpans(pitching_stats,
                                         RStripColon(Strip(line_div.label)),
                                         line_div.tokens),
                      Tail(lines))

\* parse_box_score.extract_pitching
extract_pitching(team_container, game_id, team_id, team_name, home_or_away_flag, opponent_name) ==
    LET pitching_stats == PitchingGrid(team_container.rows, game_id, team_id, team_name,
                                       home_or_away_flag, opponent_name)
    IN  IF team_container.extra.present
        THEN PitchingExtraLines(pitching_stats, team_container.extra.lines)
        ELSE pitching_stats

\* parse_box_score(html, home_team_id, away_team_id, game_id) of the
\* gcscraper: the four row lists
parse_box_score(box, home_team_id, away_team_id, game_id) ==
    [away_batting  |-> IF box.awayLineup.present
                       THEN extract_batting(box.awayLineup, game_id, away_team_id,
                                            box.awayTeamName, "AWAY", box.homeTeamName)
                       ELSE <<>>,
     home_batting  |-> IF box.homeLineup.present
                       THEN extract_batting(box.homeLineup, game_id, home_team_id,
                                            box.homeTeamName, "HOME", box.awayTeamName)
                       ELSE <<>>,
     away_pitching |-> IF box.awayPitching.present
                       THEN extract_pitching(box.awayPitching, game_id, away_team_id,
                                             box.awayTeamName, "AWAY", box.homeTeamName)
                       ELSE <<>>,
     home_pitching |-> IF box.homePitching.present
                       THEN extract_pitching(box.homePitching, game_id, home_team_id,
                                             box.homeTeamName, "HOME", box.awayTeamName)
                       ELSE <<>>]

(***************************************************************************)
(* parse_box_score of scrape_gc_schedules.py: the generic grid.  The page  *)
(* part it reads is agGrid = [present, rows], a row being the sequence of  *)
(* the texts of its ag-cell-value cells.                                   *)
(***************************************************************************)
\* int(float(v)) for a plain decimal: the integer part, towards zero
PyFloatInt(v) ==
    LET neg   == v # <<>> /\ Head(v) = "-"
        body  == IF v # <<>> /\ Head(v) \in {"+", "-"} THEN Tail(v) ELSE v
        parts == Split(body, ".")
        whole == IF parts[1] = <<>> THEN 0 ELSE DigitsVal(parts[1])
    IN  IF /\ Len(parts) = 2
           /\ parts[1] \o parts[2] # <<>>
           /\ \A i \in 1..Len(parts[1]) : IsDigit(parts[1][i])
           /\ \A i \in 1..Len(parts[2]) : IsDigit(parts[2][i])
        THEN [ok |-> TRUE, val |-> IF neg THEN 0 - whole ELSE whole]
        ELSE [ok |-> FALSE, val |-> 0]

\* to_int(value)
to_int(value) ==
    LET v == Strip(value)
    IN  IF v = <<>> \/ v = <<"-">> THEN 0
        ELSE IF PyInt(v).ok THEN PyInt(v).val
        ELSE IF PyFloatInt(v).ok THEN PyFloatInt(v).val
        ELSE 0

\* to_int(text_cells[i]) if len(text_cells) > i else dflt   (0-based i)
CellOr(text_cells, i, dflt) ==
    IF Len(text_cells) > i THEN to_int(text_cells[i + 1]) ELSE dflt

GridBattingRow(text_cells) ==
    [PlayerName  |-> text_cells[1],
     AB          |-> to_int(text_cells[2]),
     R           |-> to_int(text_cells[3]),
     H           |-> to_int(text_cells[4]),
     RBI         |-> to_int(text_cells[5]),
     BB          |-> to_int(text_cells[6]),
     SO          |-> to_int(text_cells[7]),
     Doubles     |-> CellOr(text_cells, 7, 0),
     Triples     |-> CellOr(text_cells, 8, 0),
     HomeRuns    |-> CellOr(text_cells, 9, 0),
     StolenBases |-> CellOr(text_cells, 10, 0),
     TotalBases  |-> CellOr(text_cells, 11, 0)]

GridPitchingRow(text_cells) ==
    [PitcherName   |-> text_cells[1],
     IP            |-> text_cells[2],
     HAllowed      |-> to_int(text_cells[3]),
     RAllowed      |-> to_int(text_cells[4]),
     ERAllowed     |-> to_int(text_cells[5]),
     BBAllowed     |-> to_int(text_cells[6]),
     Strikeouts    |-> to_int(text_cells[7]),
     PitchesThrown |-> CellOr(text_cells, 7, NULL),
     StrikesThrown |-> CellOr(text_cells, 8, NULL),
     BattersFaced  |-> CellOr(text_cells, 9, NULL)]

RECURSIVE GridRows(_, _)
GridRows(html_rows, kind) ==
    IF html_rows = <<>> THEN <<>>
    ELSE LET text_cells == [i \in 1..Len(Head(html_rows)) |->
                               normalize_text(Head(html_rows)[i])]
             rest == GridRows(Tail(html_rows), kind)
         IN  IF Len(text_cells) < 7 THEN rest
             ELSE IF kind = "batting" THEN <<GridBattingRow(text_cells)>> \o rest
             ELSE IF InSeq(".", text_cells[2]) THEN <<GridPitchingRow(text_cells)>> \o rest
             ELSE rest

\* parse_box_score(driver, boxscore_url, game_id, home_team, away_team):
\* no grid on the page gives two empty lists
parse_box_score_grid(box) ==
    IF ~box.agGrid.present THEN [batting |-> <<>>, pitching |-> <<>>]
    ELSE [batting  |-> GridRows(box.agGrid.rows, "batting"),
          pitching |-> GridRows(box.agGrid.rows, "pitching")]

(***************************************************************************)
(* The site the scrapers read.  Names are short so that the name matching  *)
(* stays cheap to compute.                                                 *)
(***************************************************************************)
TOctober2025 == <<"O", "c", "t", "o", "b", "e", "r", " ", "2", "0", "2", "5">>
TDay15 == <<"1", "5">>
TDay16 == <<"1", "6">>
TVsOpp == <<"v", "s", ".", " ", "O", "p", "p">>
TAtOpp == <<"@", " ", "O", "p", "p">>
TOpp == <<"O", "p", "p">>
TTime == <<"6", ":", "0", "0", " ", "P", "M">>
TWin73 == <<"W", " ", "7", "-", "3">>
TLoss25 == <<"L", " ", "2", "-", "5">>
TJaneDoe == <<"J", "a", "n", "e", " ", "D", "o", "e">>
TBoRay == <<"B", "o", " ", "R", "a", "y">>
TAlRoe == <<"A", "l", " ", "R", "o", "e">>
TCyLee == <<"C", "y", " ", "L", "e", "e">>
TZero == <<"0">>
TOne == <<"1">>
TTwo == <<"2">>
TThree == <<"3">>
TFour == <<"4">>
TIP52 == <<"5", ".", "2">>
TIP30 == <<"3", ".", "0">>
TAlRoePS == TAlRoe \o <<" ", "4", "5", "-", "3", "0">>

\* the titles and scores a schedule entry can show
EventTitles == {TVsOpp, TAtOpp, TOpp}
FinalScores == {TWin73, TLoss25}

ScheduleEvent(href, title, score) == [href |-> href, title |-> title, score |-> score]

\* a schedule of two entries: the first on the 15th, the second on day2
SchedulePage(title1, score1, day2, title2, score2) ==
    LET e1 == ScheduleEvent("/teams/t/schedule/g1", title1, score1)
        e2 == ScheduleEvent("/teams/t/schedule/g2", title2, score2)
    IN  <<[title |-> TOctober2025,
           rows  |-> IF day2 = TDay15
                     THEN <<[day |-> TDay15, events |-> <<e1, e2>>]>>
                     ELSE <<[day |-> TDay15, events |-> <<e1>>],
                            [day |-> day2, events |-> <<e2>>]>>]>>

SitePages ==
    {SchedulePage(t1, s1, d2, TVsOpp, s2) :
        t1 \in EventTitles, s1 \in {TTime, TWin73}, d2 \in {TDay15, TDay16},
        s2 \in {TTime, TLoss25}}

GridRow(name, pos, cells) ==
    [first |-> TRUE, named |-> TRUE, name |-> name, pos |-> pos, cells |-> cells,
     missing |-> {}]

NoExtra == [present |-> FALSE, lines |-> <<>>]

\* the box score every game link of the model leads to
BoxPage ==
    [awayTeamName |-> "Away Nine",
     homeTeamName |-> "Home Nine",
     awayLineup   |-> [present |-> TRUE,
                       rows    |-> <<GridRow(TJaneDoe, <<"(", "S", "S", ")">>,
                                             <<TFour, TOne, TTwo, TOne, TZero, TOne>>)>>,
                       extra   |-> [present |-> TRUE,
                                    lines   |-> <<[label |-> LHR \o <<":">>,
                                                   tokens |-> <<TJaneDoe>>]>>]],
     homeLineup   |-> [present |-> TRUE,
                       rows    |-> <<GridRow(TBoRay, <<"(", "C", ")">>,
                                             <<TThree, TZero, TOne, TZero, TOne, TZero>>)>>,
                       extra   |-> NoExtra],
     awayPitching |-> [present |-> TRUE,
                       rows    |-> <<GridRow(TAlRoe, <<>>,
                                             <<TIP52, TThree, TOne, TOne, TTwo, TFour>>)>>,
                       extra   |-> [present |-> TRUE,
                                    lines   |-> <<[label |-> LPS \o <<":">>,
                                                   tokens |-> <<TAlRoePS>>]>>]],
     homePitching |-> [present |-> TRUE,
                       rows    |-> <<GridRow(TCyLee, <<>>,
                                             <<TIP30, TFour, TTwo, TTwo, TOne, TThree>>)>>,
                       extra   |-> NoExtra],
     agGrid       |-> [present |-> TRUE,
                       rows    |-> <<<<TJaneDoe, TFour, TOne, TTwo, TOne, TZero, TOne>>,
                                     <<TAlRoe, TIP52, TThree, TOne, TOne, TTwo, TFour>>>>]]

BoxPageOf(url) == BoxPage

(***************************************************************************)
(* The scraper runs and the SQL tables.                                    *)
(***************************************************************************)
\* how many scraper runs a behaviour has
MaxRuns == 1

\* page_team_id of each entry of TEAM_SCHEDULE_URLS (gcscraper):
\* schedule_url.strip('/').split('/')[-2]; the list names one url twice
TEAM_SCHEDULE_URLS == <<"team_goes_here", "team_goes_here">>

\* team_slug and team_id of the one url of scrape_gc_schedules.py main
LEGACY_TEAM_SLUG == "2025-fall-delmarva-aces-12u-east"
LEGACY_TEAM_ID == "QQpfJzkSUSyd"

\* a text column that was not part of the INSERT
NoneText == <<NoneStr>>

GameIDs == {r.GameID : r \in GCGamesTmp4}

\* sides that put the team at home unless the entry says AWAY
SidesOfHomeDefault(g, page_team_id) ==
    IF g.home_or_away # "AWAY"
    THEN [home_id |-> page_team_id, away_id |-> ""]
    ELSE [home_id |-> "", away_id |-> page_team_id]

\* home_id and away_id of a descriptor (gcscraper main); opp_id is ''
SidesOf(g, page_team_id) ==
    IF g.home_or_away = "HOME"
    THEN [home_id |-> page_team_id, away_id |-> ""]
    ELSE [home_id |-> "", away_id |-> page_team_id]

\* the id of a descriptor with the number of the schedule pass in it
GameIdOfPass(date_part, home_id, away_id) ==
    date_part \o "_" \o home_id \o "_vs_" \o away_id \o "_" \o ToString(url_i)

\* game_id = f"{date_part}_{home_id}_vs_{away_id}"
GameIdOf(date_part, home_id, away_id) ==
    date_part \o "_" \o home_id \o "_vs_" \o away_id

\* the row the gcscraper inserts into GCGamesTmp4 for a descriptor
NewGameRow(g, page_team_id) ==
    LET sd == SidesOf(g, page_team_id)
    IN  [GameID       |-> GameIdOf(g.game_date, sd.home_id, sd.away_id),
         SourceTeamID |-> page_team_id,
         GameDate     |-> g.game_date,
         HomeTeamID   |-> sd.home_id,
         AwayTeamID   |-> sd.away_id,
         HomeScore    |-> IF g.home_or_away = "HOME" THEN g.our_score ELSE g.opp_score,
         AwayScore    |-> IF g.home_or_away = "HOME" THEN g.opp_score ELSE g.our_score,
         BoxScoreURL  |-> g.box_score_url]

\* an INSERT that overwrites the stored row of the same GameID
InsertGameUpsert(table, row) ==
    {r \in table : r.GameID # row.GameID} \cup {row}

\* INSERT INTO GCGamesTmp4 with the IntegrityError of a duplicate primary
\* key swallowed: the table afterwards
InsertGame(table, row) ==
    IF \E r \in table : r.GameID = row.GameID THEN table ELSE table \cup {row}

\* the position after descriptor gi of schedule ui is done
Advance(gs, gi, ui, urls) ==
    IF gi < Len(gs) THEN [pc |-> "game", g_i |-> gi + 1, url_i |-> ui]
    ELSE IF ui < Len(urls) THEN [pc |-> "schedule", g_i |-> 0, url_i |-> ui + 1]
    ELSE [pc |-> "idle", g_i |-> 0, url_i |-> 0]

\* no container, no result yet
NoContainer == [present |-> FALSE, rows |-> <<>>, extra |-> NoExtra]
NoResult == [op |-> "none"]

ScraperInit ==
    /\ page \in SitePages
    /\ GCGamesTmp4 = {}
    /\ GCBattingStatsTmp4 = <<>>
    /\ GCPitchingStatsTmp4 = <<>>
    /\ prog = ""
    /\ pc = "idle"
    /\ url_i = 0
    /\ games = <<>>
    /\ g_i = 0
    /\ runs = 0
    /\ derived = {}
    /\ game_insert = "none"
    /\ all_games = <<>>
    /\ lineup = NoContainer
    /\ GCTeams = {}
    /\ TOURNAMENT_TEAMS = <<>>
    /\ result = NoResult

\* the site posts the final score of a game that showed its time
PostScore ==
    /\ pc \in {"idle", "schedule"}
    /\ \E si \in 1..Len(page) : \E ri \in 1..Len(page[si].rows) :
       \E ei \in 1..Len(page[si].rows[ri].events) : \E sc \in FinalScores :
          /\ page[si].rows[ri].events[ei].score = TTime
          /\ page' = [page EXCEPT ![si].rows[ri].events[ei].score = sc]
    /\ UNCHANGED readerVars
    /\ UNCHANGED <<GCGamesTmp4, GCBattingStatsTmp4, GCPitchingStatsTmp4, prog, pc,
                   url_i, games, g_i, runs, derived, game_insert>>

\* main() of either scraper starts: login, database connection
StartRun ==
    /\ pc = "idle"
    /\ runs < MaxRuns
    /\ \E p \in {"gcscraper", "legacy"} : prog' = p
    /\ pc' = "schedule"
    /\ url_i' = 1
    /\ games' = <<>>
    /\ g_i' = 0
    /\ runs' = runs + 1
    /\ game_insert' = "none"
    /\ UNCHANGED readerVars
    /\ UNCHANGED <<page, GCGamesTmp4, GCBattingStatsTmp4, GCPitchingStatsTmp4, derived>>

\* the descriptors of a parsed schedule become the games of the pass; an
\* exception out of the parser ends the run
TakeSchedule(res) ==
    IF res.ok
    THEN LET nxt == Advance(res.games, 0, url_i, TEAM_SCHEDULE_URLS)
         IN  /\ games' = res.games
             /\ pc' = nxt.pc
             /\ g_i' = nxt.g_i
             /\ url_i' = nxt.url_i
    ELSE /\ games' = <<>>
         /\ pc' = "idle"
         /\ g_i' = 0
         /\ url_i' = 0

\* gcscraper main: driver.get(schedule_url); parse_schedule_page.  An
\* exception out of the parser is the [FATAL] handler: the run ends.
LoadSchedule ==
    /\ prog = "gcscraper"
    /\ pc = "schedule"
    /\ TakeSchedule(parse_schedule_page(page))
    /\ UNCHANGED readerVars
    /\ UNCHANGED <<page, GCGamesTmp4, GCBattingStatsTmp4, GCPitchingStatsTmp4, prog,
                   runs, derived, game_insert>>

\* gcscraper main: the game id of the descriptor and the INSERT into
\* GCGamesTmp4, committed at once
InsertGameRow ==
    /\ prog = "gcscraper"
    /\ pc = "game"
    /\ LET page_team_id == TEAM_SCHEDULE_URLS[url_i]
           row == NewGameRow(games[g_i], page_team_id)
       IN  /\ derived' = derived \cup
                  {[date |-> row.GameDate, home |-> row.HomeTeamID,
                    away |-> row.AwayTeamID, id |-> row.GameID]}
           /\ game_insert' = IF row.GameID \in GameIDs THEN "duplicate" ELSE "inserted"
           /\ GCGamesTmp4' = InsertGame(GCGamesTmp4, row)
    /\ pc' = "box"
    /\ UNCHANGED readerVars
    /\ UNCHANGED <<page, GCBattingStatsTmp4, GCPitchingStatsTmp4, prog, url_i, games,
                   g_i, runs>>

\* the rows of seq whose index is not in bad, in order
RECURSIVE KeepFrom(_, _, _)
KeepFrom(seq, bad, i) ==
    IF i > Len(seq) THEN <<>>
    ELSE (IF i \in bad THEN <<>> ELSE <<seq[i]>>) \o KeepFrom(seq, bad, i + 1)

Keep(seq, bad) == KeepFrom(seq, bad, 1)

\* the sets of rows of one game whose INSERT may raise: the rows the
\* database rejects.  The rows of the model's pages are all accepted.
FailingRows(rows) == {{}}

\* a flag that every row gets
TeamMatchOfYes(row, page_team_id) == "Yes"

\* TeamMatch = 'Yes' if row['TeamID'] == page_team_id else 'No'
TeamMatchOf(row, page_team_id) == IF row.TeamID = page_team_id THEN "Yes" ELSE "No"

\* the stored form of the extracted rows (the [:n] slices keep the short
\* texts of the model whole)
StoredRows(rows, page_team_id) ==
    [i \in 1..Len(rows) |->
        [TeamMatch |-> TeamMatchOf(rows[i], page_team_id)] @@ rows[i]]

\* the INSERTs of the rows of one game, a failing one skipped
InsertStats(bat, pit) ==
    \E bad_b \in FailingRows(bat) : \E bad_p \in FailingRows(pit) :
        /\ GCBattingStatsTmp4' = GCBattingStatsTmp4 \o Keep(bat, bad_b)
        /\ GCPitchingStatsTmp4' = GCPitchingStatsTmp4 \o Keep(pit, bad_p)

\* the rows of a parsed box score, away before home, go to the tables
InsertBoxScore(box, page_team_id) ==
    InsertStats(StoredRows(box.away_batting \o box.home_batting, page_team_id),
                StoredRows(box.away_pitching \o box.home_pitching, page_team_id))

\* the parsed box score of descriptor g
BoxScoreOf(g, sd) ==
    parse_box_score(BoxPageOf(g.box_score_url), sd.home_id, sd.away_id,
                    GameIdOf(g.game_date, sd.home_id, sd.away_id))

\* gcscraper main: the box score of the descriptor is fetched and parsed,
\* its rows are inserted one by one (a failing INSERT is skipped) and
\* committed
ScrapeBoxScore ==
    /\ prog = "gcscraper"
    /\ pc = "box"
    /\ InsertBoxScore(BoxScoreOf(games[g_i], SidesOf(games[g_i], TEAM_SCHEDULE_URLS[url_i])),
                      TEAM_SCHEDULE_URLS[url_i])
    /\ LET nxt == Advance(games, g_i, url_i, TEAM_SCHEDULE_URLS)
       IN  /\ pc' = nxt.pc
           /\ g_i' = nxt.g_i
           /\ url_i' = nxt.url_i
    /\ UNCHANGED readerVars
    /\ UNCHANGED <<page, GCGamesTmp4, prog, games, runs, derived, game_insert>>

\* gcscraper main: driver.get or parse_box_score raises; the handler
\* prints the error and continues with the next descriptor
BoxScoreFails ==
    /\ prog = "gcscraper"
    /\ pc = "box"
    /\ LET nxt == Advance(games, g_i, url_i, TEAM_SCHEDULE_URLS)
       IN  /\ pc' = nxt.pc
           /\ g_i' = nxt.g_i
           /\ url_i' = nxt.url_i
    /\ UNCHANGED readerVars
    /\ UNCHANGED <<page, GCGamesTmp4, GCBattingStatsTmp4, GCPitchingStatsTmp4, prog,
                   games, runs, derived, game_insert>>

(***************************************************************************)
(* scrape_gc_schedules.py: its schedule parser and its run                 *)
(***************************************************************************)
LegacyHomeOrAway(title_text) ==
    IF StartsWith(title_text, <<"@">>) THEN "AWAY"
    ELSE IF StartsWith(Lower(title_text), <<"v", "s", ".">>) THEN "HOME"
    ELSE ""

\* date_label of a day row
DateLabel(month_year_text, day_text) ==
    IF month_year_text # <<>> /\ day_text # <<>>
    THEN month_year_text \o <<" ">> \o day_text
    ELSE IF month_year_text # <<>> THEN month_year_text ELSE day_text

RECURSIVE LegacyEvents(_, _)
LegacyEvents(events, date_label) ==
    IF events = <<>> THEN <<>>
    ELSE LET a == Head(events)
         IN  (IF a.href = "" THEN <<>>
              ELSE <<[url   |-> GC_BASE \o a.href,
                      date  |-> date_label,
                      score |-> normalize_text(a.score),
                      ha    |-> LegacyHomeOrAway(normalize_text(a.title))]>>)
             \o LegacyEvents(Tail(events), date_label)

RECURSIVE LegacyDayRows(_, _)
LegacyDayRows(rows, month_year_text) ==
    IF rows = <<>> THEN <<>>
    ELSE LegacyEvents(Head(rows).events,
                      DateLabel(month_year_text, normalize_text(Head(rows).day)))
         \o LegacyDayRows(Tail(rows), month_year_text)

\* parse_schedule_page(driver, schedule_url) of scrape_gc_schedules.py (the
\* hrefs of the site are site-relative)
RECURSIVE legacy_parse_schedule_page(_)
legacy_parse_schedule_page(pg) ==
    IF pg = <<>> THEN <<>>
    ELSE LegacyDayRows(Head(pg).rows, normalize_text(Head(pg).title))
         \o legacy_parse_schedule_page(Tail(pg))

\* home_team and away_team of a schedule entry (main)
LegacySides(g, team_slug) ==
    IF g.ha = "HOME" THEN [home_team |-> team_slug, away_team |-> "OPP"]
    ELSE IF g.ha = "AWAY" THEN [home_team |-> "OPP", away_team |-> team_slug]
    ELSE [home_team |-> team_slug, away_team |-> "OPP"]

\* game_id = f"{g['date']}_{home_team}_vs_{away_team}".replace(" ", "_")
\* (a team slug has no blank)
LegacyGameId(date, home_team, away_team) ==
    Join(ReplaceChar(date, " ", "_")) \o "_" \o home_team \o "_vs_" \o away_team

\* insert_game_and_stats: the GCGamesTmp4 row; of the columns the function
\* knows, the table has GameID and GameDate
LegacyGameRow(game_id, game_info) ==
    [GameID       |-> game_id,
     SourceTeamID |-> NoneStr,
     GameDate     |-> Join(game_info.date),
     HomeTeamID   |-> NoneStr,
     AwayTeamID   |-> NoneStr,
     HomeScore    |-> NULL,
     AwayScore    |-> NULL,
     BoxScoreURL  |-> NoneStr]

LegacyBattingRows(batting, game_id, team_id) ==
    [i \in 1..Len(batting) |->
        [GameID |-> game_id, TeamID |-> team_id, TeamName |-> NoneStr,
         HomeOrAway |-> NoneStr, TeamMatch |-> NoneStr, Opponent |-> NoneStr,
         Position |-> NoneText] @@ batting[i]]

LegacyPitchingRows(pitching, game_id, team_id) ==
    [i \in 1..Len(pitching) |->
        [GameID |-> game_id, TeamID |-> team_id, TeamName |-> NoneStr,
         HomeOrAway |-> NoneStr, TeamMatch |-> NoneStr, Opponent |-> NoneStr]
        @@ pitching[i]]

LegacyTakeSchedule(gs) ==
    LET nxt == Advance(gs, 0, 1, <<LEGACY_TEAM_SLUG>>)
    IN  /\ games' = gs
        /\ pc' = nxt.pc
        /\ g_i' = nxt.g_i
        /\ url_i' = nxt.url_i

\* main of scrape_gc_schedules.py: the schedule of the one url is parsed
LegacyLoadSchedule ==
    /\ prog = "legacy"
    /\ pc = "schedule"
    /\ LegacyTakeSchedule(legacy_parse_schedule_page(page))
    /\ UNCHANGED readerVars
    /\ UNCHANGED <<page, GCGamesTmp4, GCBattingStatsTmp4, GCPitchingStatsTmp4, prog,
                   runs, derived, game_insert>>

\* insert_game_and_stats(cursor, game_id, game_info, batting, pitching)
insert_game_and_stats(game_id, game_info, box) ==
    /\ game_insert' = IF game_id \in GameIDs THEN "duplicate" ELSE "inserted"
    /\ GCGamesTmp4' = InsertGame(GCGamesTmp4, LegacyGameRow(game_id, game_info))
    /\ GCBattingStatsTmp4' = GCBattingStatsTmp4
           \o LegacyBattingRows(box.batting, game_id, LEGACY_TEAM_ID)
    /\ GCPitchingStatsTmp4' = GCPitchingStatsTmp4
           \o LegacyPitchingRows(box.pitching, game_id, LEGACY_TEAM_ID)

\* the game id of a schedule entry and its box score go to the database
LegacyStore(g, sd, game_id) ==
    /\ derived' = derived \cup
           {[date |-> Join(g.date), home |-> sd.home_team,
             away |-> sd.away_team, id |-> game_id]}
    /\ insert_game_and_stats(game_id, g, parse_box_score_grid(BoxPageOf(g.url \o "/box-score")))

\* main of scrape_gc_schedules.py, one schedule entry: the game id, the box
\* score, and insert_game_and_stats, which commits at its end
LegacyGame ==
    /\ prog = "legacy"
    /\ pc = "game"
    /\ LET sd == LegacySides(games[g_i], LEGACY_TEAM_SLUG)
       IN  LegacyStore(games[g_i], sd,
                       LegacyGameId(games[g_i].date, sd.home_team, sd.away_team))
    /\ LET nxt == Advance(games, g_i, 1, <<LEGACY_TEAM_SLUG>>)
       IN  /\ pc' = nxt.pc
           /\ g_i' = nxt.g_i
           /\ url_i' = nxt.url_i
    /\ UNCHANGED readerVars
    /\ UNCHANGED <<page, prog, games, runs>>

\* a run dies where it stands (an error no handler catches, the process is
\* stopped): the connection is closed and nothing uncommitted is kept
Abort ==
    /\ pc # "idle"
    /\ pc' = "idle"
    /\ g_i' = 0
    /\ url_i' = 0
    /\ UNCHANGED readerVars
    /\ UNCHANGED <<page, GCGamesTmp4, GCBattingStatsTmp4, GCPitchingStatsTmp4, prog,
                   games, runs, derived, game_insert>>

Next ==
    \/ PostScore
    \/ StartRun
    \/ LoadSchedule
    \/ InsertGameRow
    \/ ScrapeBoxScore
    \/ BoxScoreFails
    \/ LegacyLoadSchedule
    \/ LegacyGame
    \/ Abort

Spec == ScraperInit /\ [][Next]_vars

EntryId(g) ==
    IF prog = "gcscraper"
    THEN NewGameRow(g, TEAM_SCHEDULE_URLS[1]).GameID
    ELSE LET sd == LegacySides(g, LEGACY_TEAM_SLUG)
         IN  LegacyGameId(g.date, sd.home_team, sd.away_team)

CurrentGameId == EntryId(games[g_i])

\* the descriptors of the pass whose game id no other descriptor of the
\* pass shares
UniqueEntries ==
    {i \in 1..Len(games) :
        \A j \in 1..Len(games) : EntryId(games[j]) = EntryId(games[i]) => j = i}

\* C2: inserting a game whose GameID is already in the games table is a
\* no-op: the duplicate-key error is swallowed, the stored rows are what
\* they were, and the run goes on to its next step (the box score of the
\* game in the gcscraper, the stat rows of the game in the older scraper).
C2_DuplicateInsertNoOp ==
    [][((InsertGameRow \/ LegacyGame) /\ CurrentGameId \in GameIDs)
          => /\ GCGamesTmp4' = GCGamesTmp4
             /\ game_insert' = "duplicate"
             /\ prog = "gcscraper" => pc' = "box" /\ g_i' = g_i /\ url_i' = url_i
             /\ prog = "legacy" => Len(GCBattingStatsTmp4') > Len(GCBattingStatsTmp4)]_vars

\* a duplicate insert has just been swallowed although the descriptor now
\* carries other values than the stored row of its id
C2_Witness ==
    /\ prog = "gcscraper"
    /\ pc = "box"
    /\ game_insert = "duplicate"
    /\ CurrentGameId \in GameIDs
    /\ NewGameRow(games[g_i], TEAM_SCHEDULE_URLS[url_i]) \notin GCGamesTmp4

\* C3: after any number of scrapes of a schedule whose entries have
\* different game ids, the batting table holds at most one row per
\* (GameID, HomeOrAway, PlayerName) and the pitching table at most one per
\* (GameID, HomeOrAway, PitcherName).
C3_OneRowPerPlayer ==
    UniqueEntries = 1..Len(games) =>
        /\ \A i \in 1..Len(GCBattingStatsTmp4) : \A j \in 1..Len(GCBattingStatsTmp4) :
              (/\ GCBattingStatsTmp4[i].GameID = GCBattingStatsTmp4[j].GameID
               /\ GCBattingStatsTmp4[i].HomeOrAway = GCBattingStatsTmp4[j].HomeOrAway
               /\ GCBattingStatsTmp4[i].PlayerName = GCBattingStatsTmp4[j].PlayerName)
              => i = j
        /\ \A i \in 1..Len(GCPitchingStatsTmp4) : \A j \in 1..Len(GCPitchingStatsTmp4) :
              (/\ GCPitchingStatsTmp4[i].GameID = GCPitchingStatsTmp4[j].GameID
               /\ GCPitchingStatsTmp4[i].HomeOrAway = GCPitchingStatsTmp4[j].HomeOrAway
               /\ GCPitchingStatsTmp4[i].PitcherName = GCPitchingStatsTmp4[j].PitcherName)
              => i = j

\* C4: score backfill.  When a run of the gcscraper has gone through its
\* last schedule, every game the schedule showed with a final score
\* 'W n-m' or 'L n-m' is stored with those scores, also when an earlier
\* scrape stored it unplayed, with null scores.
C4_ScoreBackfill ==
    [][((ScrapeBoxScore \/ BoxScoreFails) /\ pc' = "idle")
          => \A i \in UniqueEntries :
                games[i].our_score # NULL
                  => \E r \in GCGamesTmp4' :
                        /\ r.GameID = NewGameRow(games[i], TEAM_SCHEDULE_URLS[1]).GameID
                        /\ r.HomeScore = NewGameRow(games[i], TEAM_SCHEDULE_URLS[1]).HomeScore
                        /\ r.AwayScore = NewGameRow(games[i], TEAM_SCHEDULE_URLS[1]).AwayScore]_vars

(***************************************************************************)
(* The team summaries: aggregate_team_stats_by_id (build_tournament_csv.py) *)
(* over GCGamesTmp4, and build_team_totals                                 *)
(* (scrape_tournament_threat_board.py) over the Game list of the threat    *)
(* board.  A Game is [game_id, status, home_team, away_team, home_score,   *)
(* away_score], the status and the team names being texts.                 *)
(***************************************************************************)
ZeroStats == [G |-> 0, W |-> 0, L |-> 0, RS |-> 0, RA |-> 0]

\* a loop body that books a tie as a loss
AddGameTieLoss(acc, team_runs, opp_runs) ==
    [G  |-> acc.G + 1,
     W  |-> acc.W + (IF team_runs > opp_runs THEN 1 ELSE 0),
     L  |-> acc.L + (IF team_runs > opp_runs THEN 0 ELSE 1),
     RS |-> acc.RS + team_runs,
     RA |-> acc.RA + opp_runs]

\* the counting of the loop body of aggregate_team_stats_by_id
AddGame(acc, team_runs, opp_runs) ==
    [G  |-> acc.G + 1,
     W  |-> acc.W + (IF team_runs > opp_runs THEN 1 ELSE 0),
     L  |-> acc.L + (IF team_runs < opp_runs THEN 1 ELSE 0),
     RS |-> acc.RS + team_runs,
     RA |-> acc.RA + opp_runs]

\* one fetched row: the sides from is_home = (home_id == team_id)
AggregateRow(acc, g, team_id) ==
    IF g.HomeTeamID = team_id
    THEN AddGame(acc, Or0(g.HomeScore), Or0(g.AwayScore))
    ELSE AddGame(acc, Or0(g.AwayScore), Or0(g.HomeScore))

RECURSIVE AggregateRows(_, _, _)
AggregateRows(acc, rows, team_id) ==
    IF rows = {} THEN acc
    ELSE LET g == CHOOSE r \in rows : TRUE
         IN  AggregateRows(AggregateRow(acc, g, team_id), rows \ {g}, team_id)

\* aggregate_team_stats_by_id(cursor, team_id): the rows WHERE
\* SourceTeamID = team_id, summed
aggregate_team_stats_by_id(table, team_id) ==
    AggregateRows(ZeroStats, {g \in table : g.SourceTeamID = team_id}, team_id)

\* the prefix loop of normalize_team_name: n and its lower-case form
DropTeamPrefix(n, lower) ==
    IF StartsWith(lower, <<"v", "s", ".", " ">>) THEN Strip(DropFirst(n, 4))
    ELSE IF StartsWith(lower, <<"v", "s", " ">>) THEN Strip(DropFirst(n, 3))
    ELSE IF StartsWith(lower, <<"@", " ">>) THEN Strip(DropFirst(n, 2))
    ELSE n

normalize_team_name(name) ==
    IF name = <<>> THEN <<>> ELSE DropTeamPrefix(Strip(name), Lower(Strip(name)))

EmptyTeams == [t \in {} |-> ZeroStats]

\* build_team_totals.ensure
ensure(teams, team) ==
    IF team \in DOMAIN teams THEN teams ELSE teams @@ (team :> ZeroStats)

\* teams[team][field] += n
Bump(teams, team, field, n) == [teams EXCEPT ![team][field] = @ + n]

\* W and L statements that give the home team the win of a tie
CountResultTieWin(teams, home, away, home_score, away_score) ==
    IF home_score >= away_score THEN Bump(Bump(teams, home, "W", 1), away, "W", 1)
    ELSE Bump(Bump(teams, away, "W", 1), home, "L", 1)

\* the W and L statements of the loop body
CountResult(teams, home, away, home_score, away_score) ==
    IF home_score > away_score THEN Bump(Bump(teams, home, "W", 1), away, "L", 1)
    ELSE IF home_score < away_score THEN Bump(Bump(teams, away, "W", 1), home, "L", 1)
    ELSE teams

\* the loop body of build_team_totals for a final game with both scores,
\* statement by statement
CountFinal(teams, home, away, home_score, away_score) ==
    CountResult(
        Bump(Bump(Bump(Bump(Bump(Bump(ensure(ensure(teams, home), away),
                                      home, "G", 1),
                                 away, "G", 1),
                            home, "RS", home_score),
                       home, "RA", away_score),
                  away, "RS", away_score),
             away, "RA", home_score),
        home, away, home_score, away_score)

LFinal == <<"f", "i", "n", "a", "l">>

TotalsGame(teams, g) ==
    IF Lower(g.status) # LFinal THEN teams
    ELSE IF g.home_score = NULL \/ g.away_score = NULL THEN teams
    ELSE CountFinal(teams, normalize_team_name(g.home_team),
                    normalize_team_name(g.away_team), g.home_score, g.away_score)

RECURSIVE TotalsFrom(_, _, _)
TotalsFrom(teams, gs, i) ==
    IF i > Len(gs) THEN teams ELSE TotalsFrom(TotalsGame(teams, gs[i]), gs, i + 1)

\* build_team_totals(games)
build_team_totals(gs) == TotalsFrom(EmptyTeams, gs, 1)

(***************************************************************************)
(* The data the summaries are applied to: games tables of rows the         *)
(* gcscraper stores for the schedules of two teams, and Game lists as the  *)
(* threat-board scraper builds them.                                       *)
(***************************************************************************)
MaxTableRows == 2
MaxListGames == 2

SummaryTeamIds == {"teamA", "teamB"}

\* our_score and opp_score of a descriptor: none, a win, a loss, a tie
DescriptorScores == {<<NULL, NULL>>, <<7, 3>>, <<3, 7>>, <<4, 4>>}

SummaryRows ==
    {NewGameRow([game_date     |-> "2025-10-15",
                 box_score_url |-> GC_BASE \o "/game/x/box-score",
                 home_or_away  |-> ha,
                 our_score     |-> sc[1],
                 opp_score     |-> sc[2]], t) :
        ha \in {"HOME", "AWAY"}, sc \in DescriptorScores, t \in SummaryTeamIds}

\* GameID is the primary key
SummaryTables ==
    {tb \in SUBSET SummaryRows :
        /\ Cardinality(tb) <= MaxTableRows
        /\ \A a \in tb : \A b \in tb : a.GameID = b.GameID => a = b}

TAces == <<"A", "c", "e", "s">>
TBees == <<"B", "e", "e", "s">>
TVsBees == <<"v", "s", ".", " ", "B", "e", "e", "s">>
TAtAces == <<"@", " ", "A", "c", "e", "s">>
TFinal == <<"F", "i", "n", "a", "l">>
TScheduled == <<"S", "c", "h", "e", "d", "u", "l", "e", "d">>

\* status and scores of a Game: scheduled, final without scores, home win,
\* home loss, tie
GameOutcomes ==
    {<<TScheduled, NULL, NULL>>, <<TFinal, NULL, NULL>>, <<TFinal, 7, 3>>,
     <<TFinal, 3, 7>>, <<TFinal, 4, 4>>}

ThreatGames ==
    {[game_id    |-> id,
      status     |-> o[1],
      home_team  |-> tm[1],
      away_team  |-> tm[2],
      home_score |-> o[2],
      away_score |-> o[3]] :
        id \in {"g1", "g2"}, o \in GameOutcomes,
        tm \in {<<TAces, TVsBees>>, <<TBees, TAtAces>>}}

SeqsUpTo(S, n) == UNION {[1..k -> S] : k \in 0..n}

TeamsInit ==
    /\ \/ GCGamesTmp4 \in SummaryTables /\ all_games = <<>>
       \/ GCGamesTmp4 = {} /\ all_games \in SeqsUpTo(ThreatGames, MaxListGames)
    /\ result = NoResult
    /\ page = <<>>
    /\ GCBattingStatsTmp4 = <<>>
    /\ GCPitchingStatsTmp4 = <<>>
    /\ prog = ""
    /\ pc = "idle"
    /\ url_i = 0
    /\ games = <<>>
    /\ g_i = 0
    /\ runs = 0
    /\ derived = {}
    /\ game_insert = "none"
    /\ lineup = NoContainer
    /\ GCTeams = {}
    /\ TOURNAMENT_TEAMS = <<>>

\* build_tournament_csv asks for the summary of one team
AggregateTeamStats ==
    /\ \E team_id \in SummaryTeamIds :
          result' = [op      |-> "aggregate_team_stats_by_id",
                     team_id |-> team_id,
                     stats   |-> aggregate_team_stats_by_id(GCGamesTmp4, team_id)]
    /\ UNCHANGED <<scraperVars, inputs>>

\* the threat-board main builds the totals of the games it collected
BuildTeamTotals ==
    /\ result' = [op |-> "build_team_totals", teams |-> build_team_totals(all_games)]
    /\ UNCHANGED <<scraperVars, inputs>>

TeamsNext ==
    \/ AggregateTeamStats
    \/ BuildTeamTotals

SpecTeams == TeamsInit /\ [][TeamsNext]_vars

KnownRow(g) == g.HomeScore # NULL /\ g.AwayScore # NULL

KnownGame(g) == g.home_score # NULL /\ g.away_score # NULL

\* C5: in every team summary a game whose home or away score is null is
\* excluded entirely: the summary is the summary of the games with both
\* scores, so such a game adds nothing to G, W, L, RS or RA and is not a
\* 0-0 tie.
C5_NullScoreGamesExcluded ==
    /\ result.op = "aggregate_team_stats_by_id"
          => result.stats = aggregate_team_stats_by_id(
                                {g \in GCGamesTmp4 : KnownRow(g)}, result.team_id)
    /\ result.op = "build_team_totals"
          => result.teams = build_team_totals(SelectSeq(all_games, KnownGame))

\* what one game with known scores adds for a team that scored team_runs
Contribution(team_runs, opp_runs) ==
    [G  |-> 1,
     W  |-> IF team_runs > opp_runs THEN 1 ELSE 0,
     L  |-> IF team_runs < opp_runs THEN 1 ELSE 0,
     RS |-> team_runs,
     RA |-> opp_runs]

Plus(a, b) ==
    [G |-> a.G + b.G, W |-> a.W + b.W, L |-> a.L + b.L,
     RS |-> a.RS + b.RS, RA |-> a.RA + b.RA]

StatsOf(teams, team) == IF team \in DOMAIN teams THEN teams[team] ELSE ZeroStats

Without(gs, i) == SubSeq(gs, 1, i - 1) \o SubSeq(gs, i + 1, Len(gs))

\* the totals with and without the game i of the list differ, for its home
\* and its away team, by the mirrored contributions of the game
GameAdds(with, without, g) ==
    /\ StatsOf(with, normalize_team_name(g.home_team))
         = Plus(StatsOf(without, normalize_team_name(g.home_team)),
                Contribution(g.home_score, g.away_score))
    /\ StatsOf(with, normalize_team_name(g.away_team))
         = Plus(StatsOf(without, normalize_team_name(g.away_team)),
                Contribution(g.away_score, g.home_score))

\* C6: a game with both scores known adds, to the summary of a team, 1 to
\* G, the team's side's score to RS and the other side's to RA, 1 to W iff
\* the team scored more, 1 to L iff less and neither on a tie; for the home
\* and the away team of one game the additions are mirrored.
C6_KnownGameCounted ==
    /\ result.op = "aggregate_team_stats_by_id"
          => \A g \in GCGamesTmp4 :
                (g.SourceTeamID = result.team_id /\ KnownRow(g))
                  => result.stats =
                        Plus(aggregate_team_stats_by_id(GCGamesTmp4 \ {g}, result.team_id),
                             IF g.HomeTeamID = result.team_id
                             THEN Contribution(g.HomeScore, g.AwayScore)
                             ELSE Contribution(g.AwayScore, g.HomeScore))
    /\ result.op = "build_team_totals"
          => \A i \in 1..Len(all_games) :
                (Lower(all_games[i].status) = LFinal /\ KnownGame(all_games[i]))
                  => GameAdds(result.teams, build_team_totals(Without(all_games, i)),
                              all_games[i])

\* the summary of a team that won 7-3 at home and tied 4-4 away
C6_Witness ==
    /\ result.op = "aggregate_team_stats_by_id"
    /\ \A g \in GCGamesTmp4 : g.SourceTeamID = result.team_id /\ KnownRow(g)
    /\ \E g \in GCGamesTmp4 : g.HomeTeamID = result.team_id /\ g.HomeScore = 7
    /\ \E g \in GCGamesTmp4 : g.AwayTeamID = result.team_id /\ g.AwayScore = 4
    /\ result.stats = [G |-> 2, W |-> 1, L |-> 0, RS |-> 11, RA |-> 7]

(***************************************************************************)
(* api_team_hitting (gc_api_server.py): the per-player sums of the rows of *)
(* GCBattingStatsTmp4 of one team, with the derived counts and the rate    *)
(* stats.  A quotient is the pair <<numerator, denominator>>; a rounded    *)
(* rate is its number of thousandths.                                      *)
(***************************************************************************)
\* a quotient whose evaluation raised ZeroDivisionError
ZeroDivisionError == <<0, 0>>

\* n / d
PyDiv(n, d) == IF d = 0 THEN ZeroDivisionError ELSE <<n, d>>

\* n / d whatever d is
Unguarded(n, d) == PyDiv(n, d)

\* n / d if d > 0 else 0.0
Guarded(n, d) == IF d > 0 THEN PyDiv(n, d) ELSE <<0, 1>>

\* a + b and a - b of two quotients
FracAdd(a, b) == <<a[1] * b[2] + b[1] * a[2], a[2] * b[2]>>
FracSub(a, b) == <<a[1] * b[2] - b[1] * a[2], a[2] * b[2]>>

\* the rounding of k = the quotient in thousandths to the nearest integer,
\* rem the remainder and d the divisor; a tie goes to the even neighbour
RoundHalfEven(k, rem, d) ==
    IF 2 * rem > d THEN k + 1
    ELSE IF 2 * rem < d THEN k
    ELSE IF k % 2 = 0 THEN k ELSE k + 1

\* round(q, 3) of a quotient that is not negative, in thousandths
Round3(q) == RoundHalfEven((1000 * q[1]) \div q[2], (1000 * q[1]) % q[2], q[2])

\* H - (doubles + triples + HR) as it comes
SinglesRaw(H, doubles, triples, HR) == H - (doubles + triples + HR)

\* singles, set to 0 when the breakdown exceeds the hits
Singles(H, doubles, triples, HR) ==
    IF H - (doubles + triples + HR) < 0 THEN 0 ELSE H - (doubles + triples + HR)

\* TB = singles + doubles * 2 + triples * 3 + HR * 4
TotalBasesOf(singles, doubles, triples, HR) ==
    singles + doubles * 2 + triples * 3 + HR * 4

\* SUM(column) over rows: NULL values are passed over, no value gives NULL
RECURSIVE SqlSum(_, _, _)
SqlSum(rows, column, i) ==
    IF i > Len(rows) THEN NULL
    ELSE IF rows[i][column] = NULL THEN SqlSum(rows, column, i + 1)
    ELSE rows[i][column] + Or0(SqlSum(rows, column, i + 1))

\* the rows of one player, in table order
RowsOf(rows, name) == SelectSeq(rows, LAMBDA r : r.PlayerName = name)

\* the counting stats of one fetched row, `or 0` applied
Counting(rows, name) ==
    [name |-> name,
     AB   |-> Or0(SqlSum(rows, "AB", 1)),
     R    |-> Or0(SqlSum(rows, "R", 1)),
     H    |-> Or0(SqlSum(rows, "H", 1)),
     RBI  |-> Or0(SqlSum(rows, "RBI", 1)),
     BB   |-> Or0(SqlSum(rows, "BB", 1)),
     SO   |-> Or0(SqlSum(rows, "SO", 1)),
     HR   |-> Or0(SqlSum(rows, "HomeRuns", 1)),
     SB   |-> Or0(SqlSum(rows, "StolenBases", 1))]
    @@ ("2B" :> Or0(SqlSum(rows, "Doubles", 1)))
    @@ ("3B" :> Or0(SqlSum(rows, "Triples", 1)))

\* the rate stats, not yet rounded, of a player with TB and PA
Rates(c) ==
    [AVG |-> Guarded(c.H, c.AB),
     OBP |-> Guarded(c.H + c.BB, c.PA),
     SLG |-> Guarded(c.TB, c.AB),
     OPS |-> FracAdd(Guarded(c.H + c.BB, c.PA), Guarded(c.TB, c.AB)),
     ISO |-> FracSub(Guarded(c.TB, c.AB), Guarded(c.H, c.AB))]

\* the counting stats with TB and PA
Derive(c) ==
    c @@ [TB |-> TotalBasesOf(Singles(c.H, c["2B"], c["3B"], c.HR),
                              c["2B"], c["3B"], c.HR),
          PA |-> c.AB + c.BB]

\* whether the loop body raises for a player
Raises(r) == \E k \in DOMAIN r : r[k][2] = 0

\* the dict appended to players
PlayerDict(c, r) ==
    c @@ [AVG |-> Round3(r.AVG), OBP |-> Round3(r.OBP), SLG |-> Round3(r.SLG),
          OPS |-> Round3(r.OPS), ISO |-> Round3(r.ISO)]

\* names in ORDER BY PlayerName order
RECURSIVE SortNames(_)
SortNames(names) ==
    IF names = {} THEN <<>>
    ELSE LET least == CHOOSE n \in names : \A m \in names : ~StrLess(m, n)
         IN  <<least>> \o SortNames(names \ {least})

\* the summed rows the query returns, with TB and PA, in name order
PlayerSums(rows, names) ==
    [i \in 1..Len(names) |-> Derive(Counting(RowsOf(rows, names[i]), names[i]))]

\* the response of the loop over the fetched rows
HittingResponse(sums) ==
    IF \E i \in 1..Len(sums) : Raises(Rates(sums[i]))
    THEN [status |-> 500, players |-> <<>>]
    ELSE [status  |-> 200,
          players |-> [i \in 1..Len(sums) |-> PlayerDict(sums[i], Rates(sums[i]))]]

\* a filter on the flag alone
TeamHittingRowsAnyTeam(table, team_id) ==
    SelectSeq(table, LAMBDA r : r.TeamMatch = "Yes")

\* WHERE TeamID = ? AND TeamMatch = 'Yes'
TeamHittingRows(table, team_id) ==
    SelectSeq(table, LAMBDA r : r.TeamID = team_id /\ r.TeamMatch = "Yes")

\* GROUP BY PlayerName ORDER BY PlayerName
GroupedHitting(rows) ==
    HittingResponse(PlayerSums(rows, SortNames({rows[i].PlayerName : i \in 1..Len(rows)})))

\* api_team_hitting() for the request argument team_id (a text)
api_team_hitting(table, arg) ==
    IF Strip(arg) = <<>> THEN [status |-> 400, players |-> <<>>]
    ELSE GroupedHitting(TeamHittingRows(table, Join(Strip(arg))))

(***************************************************************************)
(* The batting tables api_team_hitting is asked about: rows as the         *)
(* gcscraper stores them, the team's own (TeamMatch 'Yes') and the         *)
(* opponent's (TeamID '', TeamMatch 'No').                                 *)
(***************************************************************************)
MaxBattingRows == 2

\* AB, R, H, RBI, BB, SO, Doubles, Triples, HomeRuns, StolenBases of a row:
\* no plate appearance, a walk, two full lines, and a line whose extra-base
\* hits exceed its hits
StatLines ==
    {<<0, 0, 0, 0, 0, 0, 0, 0, 0, 0>>,
     <<0, 1, 0, 0, 1, 0, 0, 0, 0, 1>>,
     <<6, 2, 5, 3, 0, 1, 1, 1, 0, 1>>,
     <<6, 3, 5, 4, 1, 0, 1, 0, 1, 0>>,
     <<2, 1, 0, 1, 0, 1, 0, 0, 1, 0>>}

HittingRow(name, own, st) ==
    [GameID      |-> "2025-10-15_teamA_vs_",
     TeamID      |-> IF own THEN "teamA" ELSE "",
     TeamName    |-> "Aces",
     HomeOrAway  |-> IF own THEN "HOME" ELSE "AWAY",
     TeamMatch   |-> IF own THEN "Yes" ELSE "No",
     Opponent    |-> "Bees",
     PlayerName  |-> name,
     Position    |-> <<"S", "S">>,
     AB          |-> st[1],
     R           |-> st[2],
     H           |-> st[3],
     RBI         |-> st[4],
     BB          |-> st[5],
     SO          |-> st[6],
     Doubles     |-> st[7],
     Triples     |-> st[8],
     HomeRuns    |-> st[9],
     StolenBases |-> st[10],
     TotalBases  |-> 0]

HittingRows ==
    {HittingRow(name, own, st) :
        name \in {TJaneDoe, TBoRay}, own \in BOOLEAN, st \in StatLines}

\* the team_id argument of a request: absent, blank, and the id with and
\* without blanks around it
TeamIdArgs ==
    {<<>>, <<" ">>, <<"t", "e", "a", "m", "A">>, <<" ", "t", "e", "a", "m", "A", " ">>}

HittingInit ==
    /\ GCBattingStatsTmp4 \in SeqsUpTo(HittingRows, MaxBattingRows)
    /\ result = NoResult
    /\ page = <<>>
    /\ GCGamesTmp4 = {}
    /\ GCPitchingStatsTmp4 = <<>>
    /\ prog = ""
    /\ pc = "idle"
    /\ url_i = 0
    /\ games = <<>>
    /\ g_i = 0
    /\ runs = 0
    /\ derived = {}
    /\ game_insert = "none"
    /\ all_games = <<>>
    /\ lineup = NoContainer
    /\ GCTeams = {}
    /\ TOURNAMENT_TEAMS = <<>>

\* GET /api/team_hitting?team_id=...
ApiTeamHitting ==
    /\ \E arg \in TeamIdArgs :
          result' = [op       |-> "api_team_hitting",
                     team_id  |-> Join(Strip(arg)),
                     response |-> api_team_hitting(GCBattingStatsTmp4, arg)]
    /\ UNCHANGED <<scraperVars, inputs>>

HittingNext == ApiTeamHitting

SpecHitting == HittingInit /\ [][HittingNext]_vars

\* the players of the response to a request that named a team
Answered == result.op = "api_team_hitting" /\ result.team_id # ""

\* C7: the rate stats never fail on a zero denominator: the request for a
\* team completes, and in its response a player with summed AB = 0 has AVG
\* and SLG 0, one with AB + BB = 0 has OBP 0, and one with AB = 0 and
\* BB = 0 has AVG = OBP = SLG = OPS = ISO = 0.
C7_ZeroDenominatorRates ==
    Answered =>
        /\ result.response.status = 200
        /\ \A i \in 1..Len(result.response.players) :
              LET p == result.response.players[i]
              IN  /\ p.AB = 0 => p.AVG = 0 /\ p.SLG = 0
                  /\ p.AB + p.BB = 0 => p.OBP = 0
                  /\ (p.AB = 0 /\ p.BB = 0)
                        => p.AVG = 0 /\ p.OBP = 0 /\ p.SLG = 0 /\ p.OPS = 0 /\ p.ISO = 0

\* a response with a player who never came to bat and one who only walked
C7_Witness ==
    /\ Answered
    /\ result.response.status = 200
    /\ \E i \in 1..Len(result.response.players) :
          LET p == result.response.players[i]
          IN  p.AB = 0 /\ p.BB = 0 /\ p.OPS = 0 /\ p.ISO = 0
    /\ \E i \in 1..Len(result.response.players) :
          LET p == result.response.players[i]
          IN  p.AB = 0 /\ p.BB > 0 /\ p.AVG = 0 /\ p.OBP = 1000

\* the sum of a column over the rows of the table at the indices in idx
RECURSIVE ColumnSum(_, _)
ColumnSum(idx, column) ==
    IF idx = {} THEN 0
    ELSE LET i == CHOOSE k \in idx : TRUE
         IN  GCBattingStatsTmp4[i][column] + ColumnSum(idx \ {i}, column)

\* the indices of the rows of the team in the table that are the player's
OwnRows(team_id, name) ==
    {i \in 1..Len(GCBattingStatsTmp4) :
        /\ GCBattingStatsTmp4[i].TeamID = team_id
        /\ GCBattingStatsTmp4[i].TeamMatch = "Yes"
        /\ GCBattingStatsTmp4[i].PlayerName = name}

Max0(x) == IF x < 0 THEN 0 ELSE x

\* C8: in every player summary, computed from the player's summed counting
\* stats, singles = max(0, H - (2B + 3B + HR)), TB = singles + 2*2B + 3*3B
\* + 4*HR, which is never negative, and PA = AB + BB.
C8_DerivedCounts ==
    Answered =>
        \A i \in 1..Len(result.response.players) :
            LET p == result.response.players[i]
            IN  /\ p.H = ColumnSum(OwnRows(result.team_id, p.name), "H")
                /\ p["2B"] = ColumnSum(OwnRows(result.team_id, p.name), "Doubles")
                /\ p["3B"] = ColumnSum(OwnRows(result.team_id, p.name), "Triples")
                /\ p.HR = ColumnSum(OwnRows(result.team_id, p.name), "HomeRuns")
                /\ p.AB = ColumnSum(OwnRows(result.team_id, p.name), "AB")
                /\ p.BB = ColumnSum(OwnRows(result.team_id, p.name), "BB")
                /\ p.TB = Max0(p.H - (p["2B"] + p["3B"] + p.HR))
                            + 2 * p["2B"] + 3 * p["3B"] + 4 * p.HR
                /\ p.TB >= 0
                /\ p.PA = p.AB + p.BB

\* a player whose two rows sum to H = 10, 2B = 2, 3B = 1, HR = 1: singles
\* are 6 and TB is 17
C8_Witness ==
    /\ Answered
    /\ \E i \in 1..Len(result.response.players) :
          LET p == result.response.players[i]
          IN  /\ Cardinality(OwnRows(result.team_id, p.name)) = 2
              /\ p.H = 10 /\ p["2B"] = 2 /\ p["3B"] = 1 /\ p.HR = 1
              /\ p.TB = 17
              /\ p.PA = 13

(***************************************************************************)
(* The extra-stats merge applied to one lineup: extract_batting of the     *)
(* gcscraper on the container, apply_extra_stats_from_summary of           *)
(* scrape_gc_schedules.py on the rows its grid parser reads from the same  *)
(* grid and on the container's panel.  The lineups have two batters and    *)
(* one stat line.                                                          *)
(***************************************************************************)
MaxTokens == 2

TZedQ == <<"Z", "e", "d", " ", "Q">>

\* the labels of the stat lines: the five batting categories and errors
LE == <<"E">>
LineLabels == {L2B, L3B, LHR, LSB, LTB, LE}

\* the count a token states, 0 for a token without a number
TokenCounts == {0, 4}

\* the text of a player token: the name, the count if stated, and the
\* comma that separates it from the next token
TokenText(name, n, comma) ==
    name \o (IF n = 0 THEN <<>> ELSE <<" ", Digits[n + 1]>>)
         \o (IF comma THEN <<",">> ELSE <<>>)

TokenTexts ==
    {TokenText(name, n, comma) :
        name \in {TJaneDoe, TBoRay, TZedQ}, n \in TokenCounts, comma \in BOOLEAN}

LineupRows ==
    <<GridRow(TJaneDoe, <<"(", "S", "S", ")">>, <<TFour, TOne, TTwo, TOne, TZero, TOne>>),
      GridRow(TBoRay, <<"(", "C", ")">>, <<TThree, TZero, TOne, TZero, TOne, TZero>>)>>

Lineups ==
    {[present |-> TRUE,
      rows    |-> LineupRows,
      extra   |-> [present |-> TRUE,
                   lines   |-> <<[label |-> lb \o <<":">>, tokens |-> tk]>>]] :
        lb \in LineLabels, tk \in SeqsUpTo(TokenTexts, MaxTokens) \ {<<>>}}

MergeInit ==
    /\ lineup \in Lineups
    /\ GCTeams = {}
    /\ TOURNAMENT_TEAMS = <<>>
    /\ result = NoResult
    /\ page = <<>>
    /\ GCGamesTmp4 = {}
    /\ GCBattingStatsTmp4 = <<>>
    /\ GCPitchingStatsTmp4 = <<>>
    /\ prog = ""
    /\ pc = "idle"
    /\ url_i = 0
    /\ games = <<>>
    /\ g_i = 0
    /\ runs = 0
    /\ derived = {}
    /\ game_insert = "none"
    /\ all_games = <<>>

\* parse_box_score of the gcscraper reads the lineup
ExtractBatting ==
    /\ result' = [op   |-> "extract_batting",
                  rows |-> extract_batting(lineup, "2025-10-15_teamA_vs_", "teamA",
                                           "Home Nine", "HOME", "Away Nine")]
    /\ UNCHANGED <<scraperVars, inputs>>

\* the text cells of the grid rows as parse_box_score of
\* scrape_gc_schedules.py reads them
LineupCells(rows) == [i \in 1..Len(rows) |-> <<rows[i].name>> \o rows[i].cells]

\* apply_extra_stats_from_summary on the rows of the grid and the panel
ApplyExtraStats ==
    /\ result' = [op   |-> "apply_extra_stats_from_summary",
                  rows |-> apply_extra_stats_from_summary(
                               <<lineup.extra.lines>>,
                               GridRows(LineupCells(lineup.rows), "batting"))]
    /\ UNCHANGED <<scraperVars, inputs>>

MergeNext ==
    \/ ExtractBatting
    \/ ApplyExtraStats

SpecMerge == MergeInit /\ [][MergeNext]_vars

\* the stat line of the lineup, its label without the colon, and the field
\* of the five categories the label stands for
StatLine == lineup.extra.lines[1]

StatLabel == SubSeq(StatLine.label, 1, Len(StatLine.label) - 1)

CategoryField ==
    [x \in {L2B, L3B, LHR, LSB, LTB} |->
        IF x = L2B THEN "Doubles"
        ELSE IF x = L3B THEN "Triples"
        ELSE IF x = LHR THEN "HomeRuns"
        ELSE IF x = LSB THEN "StolenBases"
        ELSE "TotalBases"]

\* the positions of the tokens of the stat line that name the player
TokensOf(name) ==
    {k \in 1..Len(StatLine.tokens) :
        \E n \in TokenCounts : \E comma \in BOOLEAN :
            StatLine.tokens[k] = TokenText(name, n, comma)}

\* what a token counts: its number, 1 when it states none
CountOf(tok, name) ==
    IF \E comma \in BOOLEAN : tok = TokenText(name, 0, comma) THEN 1
    ELSE CHOOSE n \in TokenCounts \ {0} :
            \E comma \in BOOLEAN : tok = TokenText(name, n, comma)

RECURSIVE CountSum(_, _)
CountSum(ks, name) ==
    IF ks = {} THEN 0
    ELSE LET k == CHOOSE x \in ks : TRUE
         IN  CountOf(StatLine.tokens[k], name) + CountSum(ks \ {k}, name)

\* the categories a merge credits
MergedLabels ==
    IF result.op = "extract_batting" THEN {L2B, L3B, LHR} ELSE {L2B, L3B, LHR, LSB, LTB}

\* C9: in the extra-stats merge a player token without a trailing number
\* counts 1 and a token ending in a number n counts n: the row of a player
\* named by one token of a line of a category the merge credits has the
\* category's field at 1, respectively n, after the merge.
C9_TokenCount ==
    (result.op \in {"extract_batting", "apply_extra_stats_from_summary"}
       /\ StatLabel \in MergedLabels)
      => \A i \in 1..Len(result.rows) :
            Cardinality(TokensOf(result.rows[i].PlayerName)) = 1
              => \A k \in TokensOf(result.rows[i].PlayerName) :
                    result.rows[i][CategoryField[StatLabel]]
                      = CountOf(StatLine.tokens[k], result.rows[i].PlayerName)

\* the line 'HR: Jane Doe' has left the row of Jane Doe with HomeRuns = 1
C9_Witness ==
    /\ result.op = "extract_batting"
    /\ StatLabel = LHR
    /\ StatLine.tokens = <<TJaneDoe>>
    /\ \E i \in 1..Len(result.rows) :
          result.rows[i].PlayerName = TJaneDoe /\ result.rows[i].HomeRuns = 1

\* C10: the batting merge covers the five categories: for a line labelled
\* 2B, 3B, HR, SB or TB, the row of each player its tokens name has the
\* category's field increased by the counts of those tokens.
C10_FiveCategories ==
    (result.op \in {"extract_batting", "apply_extra_stats_from_summary"}
       /\ StatLabel \in DOMAIN CategoryField)
      => \A i \in 1..Len(result.rows) :
            result.rows[i][CategoryField[StatLabel]]
              = CountSum(TokensOf(result.rows[i].PlayerName), result.rows[i].PlayerName)

(***************************************************************************)
(* Name resolution of the extra-stats tokens.  A container is a lineup     *)
(* (kind "batting") or a pitching grid (kind "pitching") of two players    *)
(* with one stat line; the tokens name a player exactly, closely, by one   *)
(* word of the name, or name nobody.                                       *)
(***************************************************************************)
MaxResolveTokens == 2

TAlRay == <<"A", "l", " ", "R", "a", "y">>
TBoRey == <<"B", "o", " ", "R", "e", "y">>
TRay == <<"R", "a", "y">>
TBo == <<"B", "o">>
TAlRowe == <<"A", "l", " ", "R", "o", "w", "e">>

S4 == <<" ", "4">>
S12 == <<" ", "1", "2">>
S4530 == <<" ", "4", "5", "-", "3", "0">>
S95 == <<" ", "9", "-", "5">>
S7Dash == <<" ", "7", "-">>

\* the names and the values the tokens are made of
TokenNames == {TBoRay, TBoRey, TRay, TBo, TZedQ, TAlRoe, TAlRowe, TCyLee}
TokenSuffixes == {<<>>, S4, S12, S4530, S95, S7Dash}

BattingSpans == {TBoRay, TBoRey, TRay, TBo, TZedQ, TBoRay \o S4}

PitchingSpans ==
    {n \o v : n \in {TAlRoe, TAlRowe, TZedQ}, v \in {S4530, S12}}
      \cup {TAlRoe \o S7Dash, TCyLee \o S95}

BatterRow(name) == GridRow(name, <<"(", "C", ")">>, <<TThree, TZero, TOne, TZero, TOne, TZero>>)
PitcherRow(name) == GridRow(name, <<>>, <<TIP30, TFour, TTwo, TTwo, TOne, TThree>>)

DistinctPairs(S) == {p \in S \X S : p[1] # p[2]}

ResolveContainers ==
    {[kind    |-> "batting",
      present |-> TRUE,
      rows    |-> <<BatterRow(ab[1]), BatterRow(ab[2])>>,
      extra   |-> [present |-> TRUE,
                   lines   |-> <<[label |-> LHR \o <<":">>, tokens |-> tk]>>]] :
        ab \in DistinctPairs({TJaneDoe, TBoRay, TAlRay}),
        tk \in SeqsUpTo(BattingSpans, MaxResolveTokens) \ {<<>>}}
    \cup
    {[kind    |-> "pitching",
      present |-> TRUE,
      rows    |-> <<PitcherRow(ab[1]), PitcherRow(ab[2])>>,
      extra   |-> [present |-> TRUE,
                   lines   |-> <<[label |-> lb \o <<":">>, tokens |-> tk]>>]] :
        ab \in DistinctPairs({TAlRoe, TCyLee}), lb \in {LPS, LBF},
        tk \in SeqsUpTo(PitchingSpans, MaxResolveTokens) \ {<<>>}}

ResolveInit ==
    /\ lineup \in ResolveContainers
    /\ GCTeams = {}
    /\ TOURNAMENT_TEAMS = <<>>
    /\ result = NoResult
    /\ page = <<>>
    /\ GCGamesTmp4 = {}
    /\ GCBattingStatsTmp4 = <<>>
    /\ GCPitchingStatsTmp4 = <<>>
    /\ prog = ""
    /\ pc = "idle"
    /\ url_i = 0
    /\ games = <<>>
    /\ g_i = 0
    /\ runs = 0
    /\ derived = {}
    /\ game_insert = "none"
    /\ all_games = <<>>

\* the rows a merge makes of a container
MergeRows(op, c) ==
    IF op = "extract_batting"
    THEN extract_batting(c, "2025-10-15_teamA_vs_", "teamA", "Home Nine", "HOME", "Away Nine")
    ELSE IF op = "extract_pitching"
    THEN extract_pitching(c, "2025-10-15_teamA_vs_", "teamA", "Home Nine", "HOME", "Away Nine")
    ELSE apply_extra_stats_from_summary(<<c.extra.lines>>,
                                        GridRows(LineupCells(c.rows), "batting"))

\* parse_box_score of the gcscraper reads a lineup container
ResolveBatting ==
    /\ lineup.kind = "batting"
    /\ result' = [op |-> "extract_batting", rows |-> MergeRows("extract_batting", lineup)]
    /\ UNCHANGED <<scraperVars, inputs>>

\* parse_box_score of the gcscraper reads a pitching container
ResolvePitching ==
    /\ lineup.kind = "pitching"
    /\ result' = [op |-> "extract_pitching", rows |-> MergeRows("extract_pitching", lineup)]
    /\ UNCHANGED <<scraperVars, inputs>>

\* apply_extra_stats_from_summary on the grid rows and the panel of a lineup
ResolveSummary ==
    /\ lineup.kind = "batting"
    /\ result' = [op   |-> "apply_extra_stats_from_summary",
                  rows |-> MergeRows("apply_extra_stats_from_summary", lineup)]
    /\ UNCHANGED <<scraperVars, inputs>>

ResolveNext ==
    \/ ResolveBatting
    \/ ResolvePitching
    \/ ResolveSummary

SpecResolve == ResolveInit /\ [][ResolveNext]_vars

\* the tokens of the container's stat line, its label, and the player a
\* token names: the token text is a name followed by a value
TokenSpans == lineup.extra.lines[1].tokens

ResolveLabel == SubSeq(lineup.extra.lines[1].label, 1, Len(lineup.extra.lines[1].label) - 1)

NameOfSpan(span) ==
    CHOOSE n \in TokenNames : \E v \in TokenSuffixes : span = n \o v

SuffixOfSpan(span) ==
    CHOOSE v \in TokenSuffixes : \E n \in TokenNames : span = n \o v

RowNames == {lineup.rows[i].name : i \in 1..Len(lineup.rows)}

\* the similarity of two names is at or above the threshold
Similar(a, b) == Ratio(a, b)[1] * CUTOFF_DEN >= CUTOFF_NUM * Ratio(a, b)[2]

\* the token names a player of the container exactly or closely
Resolves(span) ==
    \E n \in RowNames : n = NameOfSpan(span) \/ Similar(n, NameOfSpan(span))

WithTokens(c, tk) == [c EXCEPT !.extra.lines = <<[@[1] EXCEPT !.tokens = tk]>>]

Merged == result.op \in {"extract_batting", "extract_pitching", "apply_extra_stats_from_summary"}

\* C11: a token whose name matches no player of the container, exactly or
\* at or above the similarity threshold, is dropped: the merge yields the
\* rows it yields when those tokens are taken out of the stat line, so no
\* row is changed by them and the other tokens are still applied.
C11_UnmatchedTokenDropped ==
    Merged => result.rows = MergeRows(result.op, WithTokens(lineup, SelectSeq(TokenSpans, Resolves)))

\* the names of the players whose rows the merge of the stat line changed
ChangedNames ==
    LET before == MergeRows(result.op, WithTokens(lineup, <<>>))
    IN  {lineup.rows[i].name : i \in {j \in 1..Len(result.rows) : result.rows[j] # before[j]}}

\* no other player of the container is closer to the token's name than c
Closest(c, name) ==
    \A n \in RowNames :
        Ratio(n, name)[1] * Ratio(c, name)[2] <= Ratio(c, name)[1] * Ratio(n, name)[2]

\* C12: name resolution is exact, else the single best match: a stat line
\* of one token changes the rows of at most one player name, the player of
\* that very name when there is one, else a closest player at or above the
\* threshold.
C12_SingleBestMatch ==
    (Merged /\ Len(TokenSpans) = 1)
      => LET name == NameOfSpan(TokenSpans[1])
         IN  /\ Cardinality(ChangedNames) <= 1
             /\ name \in RowNames => ChangedNames \subseteq {name}
             /\ name \notin RowNames
                  => \A c \in ChangedNames : Similar(c, name) /\ Closest(c, name)

\* the pitch counts the values of the tokens state, for those of the form
\* <pitches>-<strikes>
PitchValues == [v \in {S4530, S95} |-> IF v = S4530 THEN <<45, 30>> ELSE <<9, 5>>]

\* the token names the pitcher, exactly or closely
CreditedTo(span, name) ==
    \/ NameOfSpan(span) = name
    \/ NameOfSpan(span) \notin RowNames /\ Similar(name, NameOfSpan(span))

\* the pitch counts stated for a pitcher by the tokens of a Pitches-Strikes line
PitchCountsOf(name) ==
    {PitchValues[SuffixOfSpan(TokenSpans[k])] :
        k \in {j \in 1..Len(TokenSpans) :
                 /\ ResolveLabel = LPS
                 /\ SuffixOfSpan(TokenSpans[j]) \in DOMAIN PitchValues
                 /\ CreditedTo(TokenSpans[j], name)}}

\* C13: every pitching row of extract_pitching has PitchesThrown and
\* StrikesThrown either both set from a <pitches>-<strikes> value of a
\* Pitches-Strikes token of the pitcher, or both null; a value that is not
\* of that form leaves both null, never 0.
C13_PitchesStrikesBothOrNull ==
    result.op = "extract_pitching"
      => \A i \in 1..Len(result.rows) :
            IF PitchCountsOf(result.rows[i].PitcherName) = {}
            THEN result.rows[i].PitchesThrown = NULL /\ result.rows[i].StrikesThrown = NULL
            ELSE <<result.rows[i].PitchesThrown, result.rows[i].StrikesThrown>>
                   \in PitchCountsOf(result.rows[i].PitcherName)

\* 'Pitches-Strikes: Al Roe 12, Cy Lee 9-5' has left Al Roe without pitch
\* counts and Cy Lee with 9 and 5
C13_Witness ==
    /\ result.op = "extract_pitching"
    /\ ResolveLabel = LPS
    /\ TokenSpans = <<TAlRoe \o S12, TCyLee \o S95>>
    /\ \E i \in 1..Len(result.rows) :
          /\ result.rows[i].PitcherName = TAlRoe
          /\ result.rows[i].PitchesThrown = NULL
          /\ result.rows[i].StrikesThrown = NULL
    /\ \E i \in 1..Len(result.rows) :
          /\ result.rows[i].PitcherName = TCyLee
          /\ result.rows[i].PitchesThrown = 9
          /\ result.rows[i].StrikesThrown = 5

(***************************************************************************)
(* parse_schedule_page of the gcscraper on the dates of a page: a section  *)
(* of up to MaxDayRows day rows of one game each, followed by the section  *)
(* October 2025 with a game on the 16th.                                   *)
(***************************************************************************)
MaxDayRows == 2

TNovember2025 == <<"N", "o", "v", "e", "m", "b", "e", "r", " ", "2", "0", "2", "5">>
TOctember2025 == <<"O", "c", "t", "e", "m", "b", "e", "r", " ", "2", "0", "2", "5">>
TDay31 == <<"3", "1">>
TDay0 == <<"0">>
TDay1x == <<"1", "x">>

SectionTitles == {TOctober2025, TNovember2025, TOctember2025}
DayTexts == {TDay15, TDay31, TDay0, TDay1x, <<>>}

\* the day row of a day text, with the one game of that day
DayRow(day) ==
    [day |-> day, events |-> <<ScheduleEvent("/teams/t/schedule/g" \o Join(day), TVsOpp, TTime)>>]

RECURSIVE DayRows(_)
DayRows(days) == IF days = <<>> THEN <<>> ELSE <<DayRow(Head(days))>> \o DayRows(Tail(days))

DatePages ==
    {<<[title |-> t, rows |-> DayRows(days)],
       [title |-> TOctober2025, rows |-> DayRows(<<TDay16>>)]>> :
        t \in SectionTitles, days \in SeqsUpTo(DayTexts, MaxDayRows)}

ScheduleInit ==
    /\ page \in DatePages
    /\ result = NoResult
    /\ lineup = NoContainer
    /\ GCTeams = {}
    /\ TOURNAMENT_TEAMS = <<>>
    /\ GCGamesTmp4 = {}
    /\ GCBattingStatsTmp4 = <<>>
    /\ GCPitchingStatsTmp4 = <<>>
    /\ prog = ""
    /\ pc = "idle"
    /\ url_i = 0
    /\ games = <<>>
    /\ g_i = 0
    /\ runs = 0
    /\ derived = {}
    /\ game_insert = "none"
    /\ all_games = <<>>

\* main of the gcscraper parses the schedule page it loaded
ParseSchedulePage ==
    /\ result' = [op |-> "parse_schedule_page", res |-> parse_schedule_page(page)]
    /\ UNCHANGED <<scraperVars, inputs>>

ScheduleNext == ParseSchedulePage

SpecSchedule == ScheduleInit /\ [][ScheduleNext]_vars

\* the date of a day text in a section, "" when the section has no such day
DateOf(title, day) ==
    IF title = TOctober2025 /\ day = TDay15 THEN "2025-10-15"
    ELSE IF title = TOctober2025 /\ day = TDay16 THEN "2025-10-16"
    ELSE IF title = TOctober2025 /\ day = TDay31 THEN "2025-10-31"
    ELSE IF title = TNovember2025 /\ day = TDay15 THEN "2025-11-15"
    ELSE ""

\* the dates of the day rows of the page that exist, in page order
RECURSIVE RowDates(_, _)
RowDates(title, rows) ==
    IF rows = <<>> THEN <<>>
    ELSE (IF DateOf(title, Head(rows).day) = "" THEN <<>>
          ELSE <<DateOf(title, Head(rows).day)>>) \o RowDates(title, Tail(rows))

RECURSIVE PageDates(_)
PageDates(html) ==
    IF html = <<>> THEN <<>>
    ELSE RowDates(Head(html).title, Head(html).rows) \o PageDates(Tail(html))

\* C14: parse_schedule_page never fails on a date: a day row whose day is
\* not a number or does not exist in the month of its section is skipped
\* and the games of the other day rows and sections are returned.
C14_BadDateSkipped ==
    result.op = "parse_schedule_page"
      => /\ result.res.ok
         /\ [i \in 1..Len(result.res.games) |-> result.res.games[i].game_date]
              = PageDates(page)

(***************************************************************************)
(* The row loops of extract_batting and extract_pitching on a grid of up   *)
(* to MaxGridRows rows, each complete, without first cell, without         *)
(* player-name span, or without the cell aria-colindex 4.  The warnings    *)
(* are the "[WARN] Error parsing ... row" lines the loop prints.           *)
(***************************************************************************)
MaxGridRows == 3

\* the number of rows whose try block raised: the except clause prints one
\* warning and continues
RECURSIVE GridWarnings(_)
GridWarnings(rows) ==
    IF rows = <<>> THEN 0
    ELSE (IF Head(rows).first /\ Head(rows).named /\ Head(rows).missing # {} THEN 1 ELSE 0)
         + GridWarnings(Tail(rows))

GridPlayers == <<TJaneDoe, TBoRay, TAlRoe, TCyLee>>

RowShapes == {"complete", "no first cell", "no name span", "no cell"}

\* row i of a grid in a shape
ShapedRow(i, shape) ==
    [first   |-> shape # "no first cell",
     named   |-> shape \notin {"no first cell", "no name span"},
     name    |-> IF shape \in {"no first cell", "no name span"} THEN <<>> ELSE GridPlayers[i],
     pos     |-> <<>>,
     cells   |-> <<TIP30, TFour, IF shape = "no cell" THEN <<>> ELSE TTwo, TTwo, TOne, TThree>>,
     missing |-> IF shape = "no cell" THEN {4} ELSE {}]

GridContainers ==
    {[kind    |-> k,
      present |-> TRUE,
      rows    |-> [i \in 1..Len(shapes) |-> ShapedRow(i, shapes[i])],
      extra   |-> NoExtra] :
        k \in {"batting", "pitching"}, shapes \in SeqsUpTo(RowShapes, MaxGridRows)}

GridInit ==
    /\ lineup \in GridContainers
    /\ GCTeams = {}
    /\ TOURNAMENT_TEAMS = <<>>
    /\ result = NoResult
    /\ page = <<>>
    /\ GCGamesTmp4 = {}
    /\ GCBattingStatsTmp4 = <<>>
    /\ GCPitchingStatsTmp4 = <<>>
    /\ prog = ""
    /\ pc = "idle"
    /\ url_i = 0
    /\ games = <<>>
    /\ g_i = 0
    /\ runs = 0
    /\ derived = {}
    /\ game_insert = "none"
    /\ all_games = <<>>

\* extract_batting on the grid of a lineup container
GridBatting ==
    /\ lineup.kind = "batting"
    /\ result' = [op       |-> "extract_batting",
                  rows     |-> MergeRows("extract_batting", lineup),
                  warnings |-> GridWarnings(lineup.rows)]
    /\ UNCHANGED <<scraperVars, inputs>>

\* extract_pitching on the grid of a pitching container
GridPitching ==
    /\ lineup.kind = "pitching"
    /\ result' = [op       |-> "extract_pitching",
                  rows     |-> MergeRows("extract_pitching", lineup),
                  warnings |-> GridWarnings(lineup.rows)]
    /\ UNCHANGED <<scraperVars, inputs>>

GridNext ==
    \/ GridBatting
    \/ GridPitching

SpecGrid == GridInit /\ [][GridNext]_vars

\* the positions of the complete rows of the grid
CompleteRows ==
    {i \in 1..Len(lineup.rows) :
        /\ lineup.rows[i].first
        /\ lineup.rows[i].named
        /\ lineup.rows[i].missing = {}}

\* the players of the complete rows, in grid order
RECURSIVE PlayersFrom(_)
PlayersFrom(i) ==
    IF i > Len(lineup.rows) THEN <<>>
    ELSE (IF i \in CompleteRows THEN <<GridPlayers[i]>> ELSE <<>>) \o PlayersFrom(i + 1)

ExtractedPlayers ==
    [i \in 1..Len(result.rows) |->
        IF result.op = "extract_batting" THEN result.rows[i].PlayerName
        ELSE result.rows[i].PitcherName]

\* C15: row extraction is resilient per row: a row without its player-name
\* cell or without an expected stat cell is skipped, the other rows are
\* extracted in order, and one warning is logged per skipped row.
C15_RowResilience ==
    result.op \in {"extract_batting", "extract_pitching"}
      => /\ ExtractedPlayers = PlayersFrom(1)
         /\ result.warnings = Len(lineup.rows) - Cardinality(CompleteRows)

(***************************************************************************)
(* build_tournament_csv.py and /api/tournament.csv of gc_api_server.py.    *)
(* A roster entry is [label, team_id, pool], label = NoneText when the     *)
(* entry has no "label" key; GCTeams is a set of rows [TeamID, TeamName],  *)
(* TeamName = NoneText for NULL.  The CSV is the sequence of its lines.    *)
(***************************************************************************)
\* the characters of a team id
TeamIdChars ==
    [x \in {"teamA", "teamB", "TEAM_C_ID"} |->
        IF x = "teamA" THEN <<"t", "e", "a", "m", "A">>
        ELSE IF x = "teamB" THEN <<"t", "e", "a", "m", "B">>
        ELSE <<"T", "E", "A", "M", "_", "C", "_", "I", "D">>]

\* the label an entry is given when the lookup yields no name
fetch_team_nameNoFallback(teams, team_id, label_fallback) ==
    IF \E r \in teams : r.TeamID = team_id /\ r.TeamName \notin {NoneText, <<>>}
    THEN (CHOOSE r \in teams : r.TeamID = team_id).TeamName
    ELSE <<>>

\* fetch_team_name(cursor, team_id, label_fallback)
fetch_team_name(teams, team_id, label_fallback) ==
    IF \E r \in teams : r.TeamID = team_id /\ r.TeamName \notin {NoneText, <<>>}
    THEN (CHOOSE r \in teams : r.TeamID = team_id).TeamName
    ELSE IF label_fallback # <<>> THEN label_fallback
    ELSE TeamIdChars[team_id]

\* entry.get("label", team_id)
LabelOf(entry) == IF entry.label = NoneText THEN TeamIdChars[entry.team_id] ELSE entry.label

\* str(n) of a non-negative int
RECURSIVE PyStr(_)
PyStr(n) == IF n < 10 THEN <<Digits[n + 1]>> ELSE PyStr(n \div 10) \o <<Digits[(n % 10) + 1]>>

RECURSIVE DoubleQuotes(_)
DoubleQuotes(s) ==
    IF s = <<>> THEN <<>>
    ELSE (IF Head(s) = "\"" THEN <<"\"", "\"">> ELSE <<Head(s)>>) \o DoubleQuotes(Tail(s))

\* a field as the csv module writes it (QUOTE_MINIMAL)
CsvField(s) ==
    IF \E i \in 1..Len(s) : s[i] \in {",", "\"", "\n", "\r"}
    THEN <<"\"">> \o DoubleQuotes(s) \o <<"\"">>
    ELSE s

RECURSIVE CsvLine(_)
CsvLine(fields) ==
    IF fields = <<>> THEN <<>>
    ELSE IF Len(fields) = 1 THEN CsvField(Head(fields))
    ELSE CsvField(Head(fields)) \o <<",">> \o CsvLine(Tail(fields))

CsvHeader == <<<<"T", "e", "a", "m">>, <<"P", "o", "o", "l">>, <<"G">>, <<"W">>, <<"L">>,
               <<"R", "S">>, <<"R", "A">>>>

\* the fields of the row of one roster entry
OutputRow(resolved_name, pool, stats) ==
    <<resolved_name, pool, PyStr(stats.G), PyStr(stats.W), PyStr(stats.L),
      PyStr(stats.RS), PyStr(stats.RA)>>

\* the rows of the roster with the entries taken last to first
RECURSIVE OutputRowsReversed(_, _, _)
OutputRowsReversed(table, teams, roster) ==
    IF roster = <<>> THEN <<>>
    ELSE OutputRowsReversed(table, teams, Tail(roster))
         \o <<OutputRow(fetch_team_name(teams, Head(roster).team_id, LabelOf(Head(roster))),
                        Head(roster).pool,
                        aggregate_team_stats_by_id(table, Head(roster).team_id))>>

\* the loop over TOURNAMENT_TEAMS: one row per entry
RECURSIVE OutputRows(_, _, _)
OutputRows(table, teams, roster) ==
    IF roster = <<>> THEN <<>>
    ELSE <<OutputRow(fetch_team_name(teams, Head(roster).team_id, LabelOf(Head(roster))),
                     Head(roster).pool,
                     aggregate_team_stats_by_id(table, Head(roster).team_id))>>
         \o OutputRows(table, teams, Tail(roster))

\* the lines writeheader and writerow write
CsvLines(rows) == <<CsvLine(CsvHeader)>> \o [i \in 1..Len(rows) |-> CsvLine(rows[i])]

\* build_tournament_csv(output_path): the lines of the file
build_tournament_csv(table, teams, roster) == CsvLines(OutputRows(table, teams, roster))

\* api_tournament_csv(): the lines of the response body
api_tournament_csv(table, teams, roster) == CsvLines(OutputRows(table, teams, roster))

MaxRoster == 2

TBeesBlue == <<"B", "e", "e", "s", ",", " ", "B", "l", "u", "e">>
TPoolA == <<"A">>
TPoolB == <<"B">>

\* the entries a roster is made of: a team with games, a second team, and a
\* placeholder id no game is stored for
RosterEntries ==
    {[label |-> lb, team_id |-> tp[1], pool |-> tp[2]] :
        lb \in {TBeesBlue, <<>>, NoneText},
        tp \in {<<"teamA", TPoolA>>, <<"teamB", TPoolB>>, <<"TEAM_C_ID", TPoolA>>}}

Rosters == SeqsUpTo(RosterEntries, MaxRoster)

CsvGameRows ==
    {NewGameRow([game_date     |-> "2025-10-15",
                 box_score_url |-> GC_BASE \o "/game/x/box-score",
                 home_or_away  |-> "HOME",
                 our_score     |-> 7,
                 opp_score     |-> 3], "teamA"),
     NewGameRow([game_date     |-> "2025-10-15",
                 box_score_url |-> GC_BASE \o "/game/y/box-score",
                 home_or_away  |-> "AWAY",
                 our_score     |-> 2,
                 opp_score     |-> 5], "teamB")}

TeamTables ==
    {{}, {[TeamID |-> "teamA", TeamName |-> TAces]},
     {[TeamID |-> "teamA", TeamName |-> NoneText]},
     {[TeamID |-> "TEAM_C_ID", TeamName |-> TBees]}}

CsvInit ==
    /\ GCGamesTmp4 \in SUBSET CsvGameRows
    /\ GCTeams \in TeamTables
    /\ TOURNAMENT_TEAMS \in Rosters
    /\ result = NoResult
    /\ all_games = <<>>
    /\ lineup = NoContainer
    /\ page = <<>>
    /\ GCBattingStatsTmp4 = <<>>
    /\ GCPitchingStatsTmp4 = <<>>
    /\ prog = ""
    /\ pc = "idle"
    /\ url_i = 0
    /\ games = <<>>
    /\ g_i = 0
    /\ runs = 0
    /\ derived = {}
    /\ game_insert = "none"

\* build_tournament_csv.py writes the file
BuildTournamentCsv ==
    /\ result' = [op    |-> "build_tournament_csv",
                  lines |-> build_tournament_csv(GCGamesTmp4, GCTeams, TOURNAMENT_TEAMS)]
    /\ UNCHANGED <<scraperVars, inputs>>

\* GET /api/tournament.csv
ApiTournamentCsv ==
    /\ result' = [op    |-> "api_tournament_csv",
                  lines |-> api_tournament_csv(GCGamesTmp4, GCTeams, TOURNAMENT_TEAMS)]
    /\ UNCHANGED <<scraperVars, inputs>>

CsvNext ==
    \/ BuildTournamentCsv
    \/ ApiTournamentCsv

SpecCsv == CsvInit /\ [][CsvNext]_vars

CsvBuilt == result.op \in {"build_tournament_csv", "api_tournament_csv"}

\* s ends with the text tail
EndsWith(s, tail) ==
    Len(s) >= Len(tail) /\ SubSeq(s, Len(s) - Len(tail) + 1, Len(s)) = tail

\* the games table rows of a team and their totals, counted from the table
GamesOf(team_id) == {g \in GCGamesTmp4 : g.SourceTeamID = team_id}

OwnRuns(g, team_id) == IF g.HomeTeamID = team_id THEN Or0(g.HomeScore) ELSE Or0(g.AwayScore)
OppRuns(g, team_id) == IF g.HomeTeamID = team_id THEN Or0(g.AwayScore) ELSE Or0(g.HomeScore)

RECURSIVE SumRuns(_, _, _)
SumRuns(rows, team_id, own) ==
    IF rows = {} THEN 0
    ELSE LET g == CHOOSE r \in rows : TRUE
         IN  (IF own THEN OwnRuns(g, team_id) ELSE OppRuns(g, team_id))
             + SumRuns(rows \ {g}, team_id, own)

\* ",pool,G,W,L,RS,RA" of a roster entry
TotalsTail(entry) ==
    LET rows == GamesOf(entry.team_id)
        own(g) == OwnRuns(g, entry.team_id)
        opp(g) == OppRuns(g, entry.team_id)
    IN  <<",">> \o entry.pool
        \o <<",">> \o PyStr(Cardinality(rows))
        \o <<",">> \o PyStr(Cardinality({g \in rows : own(g) > opp(g)}))
        \o <<",">> \o PyStr(Cardinality({g \in rows : own(g) < opp(g)}))
        \o <<",">> \o PyStr(SumRuns(rows, entry.team_id, TRUE))
        \o <<",">> \o PyStr(SumRuns(rows, entry.team_id, FALSE))

THeaderLine == <<"T", "e", "a", "m", ",", "P", "o", "o", "l", ",", "G", ",", "W", ",", "L",
                 ",", "R", "S", ",", "R", "A">>

\* C16: the tournament CSV has the header Team,Pool,G,W,L,RS,RA as first
\* line and then one row per roster entry, in roster order, with the
\* entry's pool and the integer totals of the entry's team_id.
C16_CsvRowPerEntry ==
    CsvBuilt
      => /\ Len(result.lines) = 1 + Len(TOURNAMENT_TEAMS)
         /\ result.lines[1] = THeaderLine
         /\ \A i \in 1..Len(TOURNAMENT_TEAMS) :
               EndsWith(result.lines[i + 1], TotalsTail(TOURNAMENT_TEAMS[i]))

\* a roster of teamB and teamA, both with a game, has been written
C16_Witness ==
    /\ result.op = "build_tournament_csv"
    /\ Len(TOURNAMENT_TEAMS) = 2
    /\ TOURNAMENT_TEAMS[1].team_id = "teamB"
    /\ TOURNAMENT_TEAMS[2].team_id = "teamA"
    /\ GCGamesTmp4 = CsvGameRows
    /\ EndsWith(result.lines[2], <<",", "B", ",", "1", ",", "0", ",", "1", ",", "2", ",", "5">>)
    /\ EndsWith(result.lines[3], <<",", "A", ",", "1", ",", "1", ",", "0", ",", "7", ",", "3">>)

\* the name of a roster entry: the stored TeamName, else the label, else
\* the team id
NameOfEntry(entry) ==
    IF \E r \in GCTeams : r.TeamID = entry.team_id /\ r.TeamName # NoneText
    THEN (CHOOSE r \in GCTeams : r.TeamID = entry.team_id).TeamName
    ELSE IF entry.label \notin {NoneText, <<>>} THEN entry.label
    ELSE TeamIdChars[entry.team_id]

\* C17: a roster entry whose team_id matches no stored game still yields a
\* row, with G = W = L = RS = RA = 0 and as name the stored TeamName, else
\* the entry's label, else the team_id.
C17_EmptyTeamRow ==
    CsvBuilt
      => \A i \in 1..Len(TOURNAMENT_TEAMS) :
            GamesOf(TOURNAMENT_TEAMS[i].team_id) = {}
              => /\ i + 1 <= Len(result.lines)
                 /\ result.lines[i + 1]
                      = CsvField(NameOfEntry(TOURNAMENT_TEAMS[i])) \o <<",">>
                        \o TOURNAMENT_TEAMS[i].pool
                        \o <<",", "0", ",", "0", ",", "0", ",", "0", ",", "0">>

\* the placeholder entry without label of a roster has been written under
\* its team id, and one with a label under the label
C17_Witness ==
    /\ result.op = "api_tournament_csv"
    /\ GCTeams = {}
    /\ Len(TOURNAMENT_TEAMS) = 2
    /\ TOURNAMENT_TEAMS[1] = [label |-> NoneText, team_id |-> "TEAM_C_ID", pool |-> TPoolA]
    /\ TOURNAMENT_TEAMS[2] = [label |-> TBeesBlue, team_id |-> "TEAM_C_ID", pool |-> TPoolA]
    /\ result.lines[2] = TeamIdChars["TEAM_C_ID"] \o <<",", "A", ",", "0", ",", "0", ",", "0", ",", "0", ",", "0">>
    /\ result.lines[3] = <<"\"">> \o TBeesBlue \o <<"\"", ",", "A", ",", "0", ",", "0", ",", "0", ",", "0", ",", "0">>

(***************************************************************************)
(* The scraper runs with a database that rejects rows.                     *)
(***************************************************************************)
\* the three tables as one store
Store ==
    [games    |-> GCGamesTmp4,
     batting  |-> GCBattingStatsTmp4,
     pitching |-> GCPitchingStatsTmp4]

\* a is the beginning of b
IsPrefix(a, b) == Len(a) <= Len(b) /\ SubSeq(b, 1, Len(a)) = a

\* the rows of one game whose INSERT raises, batting and pitching: the
\* database rejects one row of the game
RejectedRows(bat, pit) ==
    {<<{i}, {}>> : i \in 1..Len(bat)} \cup {<<{}, {i}>> : i \in 1..Len(pit)}

\* the row loops of gcscraper main with a rejected row: 'except
\* pyodbc.IntegrityError: continue' and 'except Exception: ... continue'
\* go on with the next row
InsertStatsRejecting(bat, pit) ==
    \E bad \in RejectedRows(bat, pit) :
        /\ GCBattingStatsTmp4' = GCBattingStatsTmp4 \o Keep(bat, bad[1])
        /\ GCPitchingStatsTmp4' = GCPitchingStatsTmp4 \o Keep(pit, bad[2])

\* the stored rows of the box score of descriptor g of the gcscraper
GameStats(box, page_team_id) ==
    [bat |-> StoredRows(box.away_batting \o box.home_batting, page_team_id),
     pit |-> StoredRows(box.away_pitching \o box.home_pitching, page_team_id)]

GameStatsOf(g, page_team_id) ==
    GameStats(BoxScoreOf(g, SidesOf(g, page_team_id)), page_team_id)

InsertRejecting(stats) == InsertStatsRejecting(stats.bat, stats.pit)

\* gcscraper main: the box score is parsed, the INSERT of one of its rows
\* raises, the other rows are inserted, conn.commit(), next descriptor
ScrapeBoxScoreRejects ==
    /\ prog = "gcscraper"
    /\ pc = "box"
    /\ InsertRejecting(GameStatsOf(games[g_i], TEAM_SCHEDULE_URLS[url_i]))
    /\ LET nxt == Advance(games, g_i, url_i, TEAM_SCHEDULE_URLS)
       IN  /\ pc' = nxt.pc
           /\ g_i' = nxt.g_i
           /\ url_i' = nxt.url_i
    /\ UNCHANGED readerVars
    /\ UNCHANGED <<page, GCGamesTmp4, prog, games, runs, derived, game_insert>>

\* the store without its batting rows
CloseUncommittedLost(committed, working) ==
    [committed EXCEPT !.batting = <<>>]

\* the connection goes away with statements that were never committed (the
\* process ends on an exception nothing catches): the store is what the
\* last commit left
CloseUncommitted(committed, working) == committed

\* the statements of insert_game_and_stats in order: the games INSERT, the
\* batting rows, the pitching rows
LegacyStatements(bat, pit) ==
    [i \in 1..(Len(bat) + Len(pit)) |->
        IF i <= Len(bat) THEN [table |-> "batting", row |-> bat[i]]
        ELSE [table |-> "pitching", row |-> pit[i - Len(bat)]]]

\* the rows of one table among the first n statements
RowsBefore(stmts, n, table) ==
    LET of_table(s) == s.table = table
        row_of == [i \in 1..n |-> stmts[i]]
        kept == SelectSeq(row_of, of_table)
    IN  [i \in 1..Len(kept) |-> kept[i].row]

\* insert_game_and_stats up to the statement k, which raises: what the
\* connection has executed and not committed
LegacyWorking(game_row, bat, pit, k) ==
    [games    |-> InsertGame(GCGamesTmp4, game_row),
     batting  |-> GCBattingStatsTmp4 \o RowsBefore(LegacyStatements(bat, pit), k - 1, "batting"),
     pitching |-> GCPitchingStatsTmp4 \o RowsBefore(LegacyStatements(bat, pit), k - 1, "pitching")]

\* the game id, the game row and the stat rows of a schedule entry of
\* scrape_gc_schedules.py
LegacyGameOf(g, sd, game_id, box) ==
    [sd       |-> sd,
     game_id  |-> game_id,
     game_row |-> LegacyGameRow(game_id, g),
     bat      |-> LegacyBattingRows(box.batting, game_id, LEGACY_TEAM_ID),
     pit      |-> LegacyPitchingRows(box.pitching, game_id, LEGACY_TEAM_ID)]

LegacyGameAt(g, sd) ==
    LegacyGameOf(g, sd, LegacyGameId(g.date, sd.home_team, sd.away_team),
                 parse_box_score_grid(BoxPageOf(g.url \o "/box-score")))

\* the store after the statement k of the game raised
LegacyFailureAt(lg, k) ==
    LET after == CloseUncommitted(Store, LegacyWorking(lg.game_row, lg.bat, lg.pit, k))
    IN  /\ GCGamesTmp4' = after.games
        /\ GCBattingStatsTmp4' = after.batting
        /\ GCPitchingStatsTmp4' = after.pitching

LegacyFailure(g, lg) ==
    /\ derived' = derived \cup
           {[date |-> Join(g.date), home |-> lg.sd.home_team,
             away |-> lg.sd.away_team, id |-> lg.game_id]}
    /\ game_insert' = IF lg.game_id \in GameIDs THEN "duplicate" ELSE "inserted"
    /\ \E k \in 1..(Len(lg.bat) + Len(lg.pit)) : LegacyFailureAt(lg, k)

\* main of scrape_gc_schedules.py, one schedule entry: cursor.execute of a
\* batting or pitching row raises inside insert_game_and_stats.  Neither
\* the function nor main catches it: the run ends before conn.commit()
LegacyRowFails ==
    /\ prog = "legacy"
    /\ pc = "game"
    /\ LegacyFailure(games[g_i], LegacyGameAt(games[g_i], LegacySides(games[g_i], LEGACY_TEAM_SLUG)))
    /\ pc' = "idle"
    /\ g_i' = 0
    /\ url_i' = 0
    /\ UNCHANGED readerVars
    /\ UNCHANGED <<page, prog, games, runs>>

StoreNext ==
    \/ PostScore
    \/ StartRun
    \/ LoadSchedule
    \/ InsertGameRow
    \/ ScrapeBoxScore
    \/ ScrapeBoxScoreRejects
    \/ BoxScoreFails
    \/ LegacyLoadSchedule
    \/ LegacyGame
    \/ LegacyRowFails
    \/ Abort

SpecStore == ScraperInit /\ [][StoreNext]_vars

\* C18: a record that is in the store stays there: no step of a run, the
\* failure of a box score, a rejected row and the death of the run among
\* them, removes a game row or a stat row or changes the rows stored
\* before it.
C18_CommittedRowsStay ==
    [][/\ GCGamesTmp4 \subseteq GCGamesTmp4'
       /\ IsPrefix(GCBattingStatsTmp4, GCBattingStatsTmp4')
       /\ IsPrefix(GCPitchingStatsTmp4, GCPitchingStatsTmp4')]_vars

\* the game id the gcscraper stores for the descriptor i of the schedule
StoredIdOf(i) == NewGameRow(games[i], TEAM_SCHEDULE_URLS[1]).GameID

HasStats(game_id) ==
    /\ \E i \in 1..Len(GCBattingStatsTmp4) : GCBattingStatsTmp4[i].GameID = game_id
    /\ \E i \in 1..Len(GCPitchingStatsTmp4) : GCPitchingStatsTmp4[i].GameID = game_id

NoStats(game_id) ==
    /\ \A i \in 1..Len(GCBattingStatsTmp4) : GCBattingStatsTmp4[i].GameID # game_id
    /\ \A i \in 1..Len(GCPitchingStatsTmp4) : GCPitchingStatsTmp4[i].GameID # game_id

\* the run is over; the first game of the schedule is stored with its
\* rows, the box score of the second, later game never went in
C18_Witness ==
    /\ prog = "gcscraper"
    /\ pc = "idle"
    /\ Len(games) = 2
    /\ StoredIdOf(1) # StoredIdOf(2)
    /\ {StoredIdOf(1), StoredIdOf(2)} \subseteq GameIDs
    /\ HasStats(StoredIdOf(1))
    /\ NoStats(StoredIdOf(2))

\* the rows of the game a run is at, and the position after it
GameAtHand ==
    IF prog = "gcscraper"
    THEN [stats |-> GameStatsOf(games[g_i], TEAM_SCHEDULE_URLS[url_i]),
          game_id |-> NewGameRow(games[g_i], TEAM_SCHEDULE_URLS[url_i]).GameID,
          nxt |-> Advance(games, g_i, url_i, TEAM_SCHEDULE_URLS)]
    ELSE [stats |-> LegacyGameAt(games[g_i], LegacySides(games[g_i], LEGACY_TEAM_SLUG)),
          game_id |-> LegacyGameAt(games[g_i], LegacySides(games[g_i], LEGACY_TEAM_SLUG)).game_id,
          nxt |-> Advance(games, g_i, 1, <<LEGACY_TEAM_SLUG>>)]

\* the step stored every row of the game but the rejected one and went on
SiblingRowsStored(h) ==
    /\ h.game_id \in {r.GameID : r \in GCGamesTmp4'}
    /\ InsertRejecting(h.stats)
    /\ pc' = h.nxt.pc
    /\ g_i' = h.nxt.g_i
    /\ url_i' = h.nxt.url_i

\* C19: a step in which the INSERT of one batting or pitching row of a
\* game fails stores the game's other rows, in order, behind the rows the
\* tables had, and leaves the run at the next game.
C19_FailingRowSkipped ==
    [][(ScrapeBoxScoreRejects \/ LegacyRowFails) => SiblingRowsStored(GameAtHand)]_vars

(***************************************************************************)
(* scrape_tournament_threat_board.py: the tournament CSV of the totals     *)
(***************************************************************************)
\* the keys of the dict build_team_totals returns, in insertion order:
\* ensure(home), ensure(away) of every game that counts
RECURSIVE TeamOrderFrom(_, _, _)
TeamOrderFrom(order, gs, i) ==
    IF i > Len(gs) THEN order
    ELSE IF TotalsGame(EmptyTeams, gs[i]) = EmptyTeams THEN TeamOrderFrom(order, gs, i + 1)
    ELSE LET home == normalize_team_name(gs[i].home_team)
             away == normalize_team_name(gs[i].away_team)
             with_home == IF \E k \in 1..Len(order) : order[k] = home
                          THEN order ELSE Append(order, home)
             with_away == IF \E k \in 1..Len(with_home) : with_home[k] = away
                          THEN with_home ELSE Append(with_home, away)
         IN  TeamOrderFrom(with_away, gs, i + 1)

\* teams.items() of the dict of build_team_totals
TeamItems(teams, order) ==
    [i \in 1..Len(order) |-> [team |-> order[i], stats |-> teams[order[i]]]]

\* main: {team: stats for team, stats in team_totals.items()
\*        if team in SCRAPED_TEAM_NAMES}
FilteredTeamTotals(items, scraped) ==
    LET is_scraped(it) == it.team \in scraped
    IN  SelectSeq(items, is_scraped)

\* the tuple write_tournament_csv appends for an item
TournamentRow(it) ==
    [Team |-> it.team, Pool |-> <<>>, G |-> it.stats.G, W |-> it.stats.W,
     L |-> it.stats.L, RS |-> it.stats.RS, RA |-> it.stats.RA]

\* a sort key that leaves the runs scored out
sort_keyNoRS(r) ==
    [win_pct |-> IF r.G # 0 THEN [num |-> -r.W, den |-> r.G] ELSE [num |-> 0, den |-> 1],
     rd      |-> -(r.RS - r.RA),
     rs      |-> 0]

\* sort_key(r): (-win_pct, -rd, -rs) with win_pct = w / g if g else 0.  The
\* quotient is kept as numerator and denominator: for the counts of a
\* schedule two float quotients compare as the fractions do
sort_key(r) ==
    [win_pct |-> IF r.G # 0 THEN [num |-> -r.W, den |-> r.G] ELSE [num |-> 0, den |-> 1],
     rd      |-> -(r.RS - r.RA),
     rs      |-> -r.RS]

\* p < q and p = q for two quotients with positive denominators
QuotLess(p, q) == p.num * q.den < q.num * p.den
QuotEq(p, q) == p.num * q.den = q.num * p.den

\* a < b for two key tuples, as Python compares tuples
KeyLess(a, b) ==
    \/ QuotLess(a.win_pct, b.win_pct)
    \/ /\ QuotEq(a.win_pct, b.win_pct)
       /\ \/ a.rd < b.rd
          \/ a.rd = b.rd /\ a.rs < b.rs

\* list.sort is stable: a row goes before the first row with a greater key
RECURSIVE InsertByKey(_, _)
InsertByKey(sorted, r) ==
    IF sorted = <<>> THEN <<r>>
    ELSE IF KeyLess(sort_key(r), sort_key(Head(sorted))) THEN <<r>> \o sorted
    ELSE <<Head(sorted)>> \o InsertByKey(Tail(sorted), r)

RECURSIVE SortFrom(_, _, _)
SortFrom(sorted, rows, i) ==
    IF i > Len(rows) THEN sorted ELSE SortFrom(InsertByKey(sorted, rows[i]), rows, i + 1)

\* rows.sort(key=sort_key)
SortRows(rows) == SortFrom(<<>>, rows, 1)

\* write_tournament_csv(path, teams): the data rows handed to
\* writer.writerows, after the header
write_tournament_csv(items) ==
    SortRows([i \in 1..Len(items) |-> TournamentRow(items[i])])

MaxBoardGames == 2

TCubs == <<"C", "u", "b", "s">>

BoardTeams == {TAces, TBees, TCubs}

\* home and away score of a final game
BoardScores == {<<7, 3>>, <<5, 1>>, <<3, 7>>, <<4, 4>>}

BoardGames ==
    {[game_id    |-> "g",
      status     |-> TFinal,
      home_team  |-> tm[1],
      away_team  |-> tm[2],
      home_score |-> sc[1],
      away_score |-> sc[2]] :
        tm \in DistinctPairs(BoardTeams), sc \in BoardScores}

BoardInit ==
    /\ all_games \in SeqsUpTo(BoardGames, MaxBoardGames)
    /\ result = NoResult
    /\ GCGamesTmp4 = {}
    /\ page = <<>>
    /\ GCBattingStatsTmp4 = <<>>
    /\ GCPitchingStatsTmp4 = <<>>
    /\ prog = ""
    /\ pc = "idle"
    /\ url_i = 0
    /\ games = <<>>
    /\ g_i = 0
    /\ runs = 0
    /\ derived = {}
    /\ game_insert = "none"
    /\ lineup = NoContainer
    /\ GCTeams = {}
    /\ TOURNAMENT_TEAMS = <<>>

\* the items of the totals of a Game list
TotalsItems(gs) == TeamItems(build_team_totals(gs), TeamOrderFrom(<<>>, gs, 1))

\* what main hands to write_tournament_csv, and the rows it writes
WrittenCsv(scraped, items) ==
    [op                 |-> "write_tournament_csv",
     SCRAPED_TEAM_NAMES |-> scraped,
     teams              |-> items,
     rows               |-> write_tournament_csv(items)]

\* main of the threat-board scraper after the scrape, once a run: the
\* totals of the games, restricted to the teams whose schedules were
\* scraped, are written
WriteTournamentCsv ==
    /\ result = NoResult
    /\ \E scraped \in SUBSET BoardTeams :
          result' = WrittenCsv(scraped, FilteredTeamTotals(TotalsItems(all_games), scraped))
    /\ UNCHANGED <<scraperVars, inputs>>

BoardNext == WriteTournamentCsv

SpecBoard == BoardInit /\ [][BoardNext]_vars

\* r is not smaller than s: win percentage first, then run differential,
\* then runs scored
WinPctOf(r) == IF r.G = 0 THEN [num |-> 0, den |-> 1] ELSE [num |-> r.W, den |-> r.G]

NotSmaller(r, s) ==
    \/ QuotLess(WinPctOf(s), WinPctOf(r))
    \/ /\ QuotEq(WinPctOf(r), WinPctOf(s))
       /\ \/ r.RS - r.RA > s.RS - s.RA
          \/ r.RS - r.RA = s.RS - s.RA /\ r.RS >= s.RS

\* C20: of every two adjacent data rows write_tournament_csv writes, the
\* earlier one is not smaller under the key (win percentage W/G, 0 when
\* G = 0; then run differential RS - RA; then RS), and the rows are the
\* rows of the teams given, each once.
C20_RowsOrdered ==
    result.op = "write_tournament_csv" =>
        /\ \A i \in 1..(Len(result.rows) - 1) :
              NotSmaller(result.rows[i], result.rows[i + 1])
        /\ {result.rows[i].Team : i \in 1..Len(result.rows)}
               = {result.teams[i].team : i \in 1..Len(result.teams)}
        /\ Len(result.rows) = Len(result.teams)

\* Bees and Aces both won their one game by four runs, Bees first in the
\* dict; Aces scored more and is written first, Cubs last
C20_Witness ==
    /\ result.op = "write_tournament_csv"
    /\ Len(result.rows) = 3
    /\ TeamOrderFrom(<<>>, all_games, 1) = <<TBees, TCubs, TAces>>
    /\ result.rows[1].Team = TAces /\ result.rows[1].RS = 7
    /\ result.rows[2].Team = TBees /\ result.rows[2].RS = 5
    /\ result.rows[1].W = 1 /\ result.rows[2].W = 1
    /\ result.rows[1].RS - result.rows[1].RA = result.rows[2].RS - result.rows[2].RA
    /\ result.rows[3].Team = TCubs

(***************************************************************************)
(* The source-team flag of the stored rows.                                *)
(***************************************************************************)
\* the stat rows of both tables
StatRows ==
    {GCBattingStatsTmp4[i] : i \in 1..Len(GCBattingStatsTmp4)}
        \cup {GCPitchingStatsTmp4[i] : i \in 1..Len(GCPitchingStatsTmp4)}

\* the games the gcscraper stored: those with a SourceTeamID
SourcedGames == {g \in GCGamesTmp4 : g.SourceTeamID # NoneStr}

\* the side of the team whose schedule the game came from
SourceSide(g) == IF g.HomeTeamID = g.SourceTeamID THEN "HOME" ELSE "AWAY"

\* C21: a stored row of a game of the gcscraper has TeamMatch 'Yes' exactly
\* when its TeamID is the id of the team whose schedule was scraped, and
\* 'No' otherwise; the rows with the flag are those of one side of the
\* game, the side of that team, and the rows of the other side have 'No'.
C21_TeamMatchOneSide ==
    \A g \in SourcedGames : \A r \in StatRows :
        r.GameID = g.GameID =>
            /\ r.TeamMatch \in {"Yes", "No"}
            /\ r.TeamMatch = "Yes" <=> r.TeamID = g.SourceTeamID
            /\ r.TeamMatch = "Yes" <=> r.HomeOrAway = SourceSide(g)

\* a game is stored with rows of both sides: the home rows carry the flag,
\* the away rows do not
C21_Witness ==
    \E g \in SourcedGames :
        /\ SourceSide(g) = "HOME"
        /\ \E r \in StatRows :
              r.GameID = g.GameID /\ r.HomeOrAway = "HOME" /\ r.TeamMatch = "Yes"
        /\ \E r \in StatRows :
              r.GameID = g.GameID /\ r.HomeOrAway = "AWAY" /\ r.TeamMatch = "No"

(***************************************************************************)
(* parse_schedule_page of the gcscraper on the event links of a day row.   *)
(***************************************************************************)
MaxEvents == 2

TUpperVsOpp == <<"V", "S", ".", " ", "O", "p", "p">>
TWin7x == <<"W", " ", "7", "-", "x">>
TWinx3 == <<"W", " ", "x", "-", "3">>
TWin731 == <<"W", " ", "7", "-", "3", "-", "1">>
TWin7 == <<"W", " ", "7">>
TTie44 == <<"T", " ", "4", "-", "4">>

LinkTitles == {TVsOpp, TAtOpp, TOpp, TUpperVsOpp}
LinkScores == {TWin73, TLoss25, TTime, <<>>, TWin7x, TWinx3, TWin731, TWin7, TTie44}

\* the event links of a schedule: with an href, or without
EventLinks ==
    {ScheduleEvent("/teams/t/schedule/g", t, s) : t \in LinkTitles, s \in LinkScores}
        \cup {ScheduleEvent("", TVsOpp, TWin73)}

\* the schedule of October 2025 with the links on the 15th
EventPages ==
    {<<[title |-> TOctober2025, rows |-> <<[day |-> TDay15, events |-> ev]>>]>> :
        ev \in SeqsUpTo(EventLinks, MaxEvents)}

EventsInit ==
    /\ page \in EventPages
    /\ result = NoResult
    /\ lineup = NoContainer
    /\ GCTeams = {}
    /\ TOURNAMENT_TEAMS = <<>>
    /\ GCGamesTmp4 = {}
    /\ GCBattingStatsTmp4 = <<>>
    /\ GCPitchingStatsTmp4 = <<>>
    /\ prog = ""
    /\ pc = "idle"
    /\ url_i = 0
    /\ games = <<>>
    /\ g_i = 0
    /\ runs = 0
    /\ derived = {}
    /\ game_insert = "none"
    /\ all_games = <<>>

\* parse_schedule_page is called once on the page
ParseEventsPage ==
    /\ result = NoResult
    /\ result' = [op |-> "parse_schedule_page", res |-> parse_schedule_page(page)]
    /\ UNCHANGED <<scraperVars, inputs>>

EventsNext == ParseEventsPage

SpecEvents == EventsInit /\ [][EventsNext]_vars

\* the largest score a score text of the pages shows
MaxShownScore == 9

\* the scores 'W n-m' and 'L n-m' stand for, null for any other text
ShownScore(text) ==
    IF \E c \in {"W", "L"} : \E n \in 0..MaxShownScore : \E m \in 0..MaxShownScore :
          text = <<c, " ">> \o PyStr(n) \o <<"-">> \o PyStr(m)
    THEN LET nm == CHOOSE nm \in (0..MaxShownScore) \X (0..MaxShownScore) :
                      \E c \in {"W", "L"} :
                         text = <<c, " ">> \o PyStr(nm[1]) \o <<"-">> \o PyStr(nm[2])
         IN  [our |-> nm[1], opp |-> nm[2]]
    ELSE [our |-> NULL, opp |-> NULL]

\* HOME for a title that starts with 'vs.', AWAY for one that starts with '@'
ShownSide(title) ==
    IF Len(title) >= 3 /\ SubSeq(title, 1, 3) = <<"v", "s", ".">> THEN "HOME"
    ELSE IF Len(title) >= 1 /\ title[1] = "@" THEN "AWAY"
    ELSE NoneStr

\* the links of the 15th that have an href, in page order
LinkedEvents ==
    LET has_href(a) == a.href # ""
    IN  SelectSeq(page[1].rows[1].events, has_href)

\* C22: parse_schedule_page returns one descriptor per event link with an
\* href, in page order; home_or_away is HOME for a 'vs.' title, AWAY for an
\* '@' title and null otherwise; the scores are (n, m) for the score text
\* 'W n-m' or 'L n-m' and both null for any other text, so they are both
\* set or both null.
C22_DescriptorPerLink ==
    result.op = "parse_schedule_page" =>
        /\ result.res.ok
        /\ Len(result.res.games) = Len(LinkedEvents)
        /\ \A i \in 1..Len(LinkedEvents) :
              /\ result.res.games[i].box_score_url = GC_BASE \o LinkedEvents[i].href
              /\ result.res.games[i].game_date = "2025-10-15"
              /\ result.res.games[i].home_or_away = ShownSide(LinkedEvents[i].title)
              /\ result.res.games[i].our_score = ShownScore(LinkedEvents[i].score).our
              /\ result.res.games[i].opp_score = ShownScore(LinkedEvents[i].score).opp
              /\ result.res.games[i].our_score = NULL <=> result.res.games[i].opp_score = NULL

\* a link without href is passed over; the link after it, '@ Opp' with
\* 'W 7-x', is returned AWAY with both scores null
C22_Witness ==
    /\ result.op = "parse_schedule_page"
    /\ Len(page[1].rows[1].events) = 2
    /\ page[1].rows[1].events[1].href = ""
    /\ page[1].rows[1].events[2].score = TWin7x
    /\ Len(result.res.games) = 1
    /\ result.res.games[1].home_or_away = "AWAY"
    /\ result.res.games[1].our_score = NULL
    /\ result.res.games[1].opp_score = NULL

(***************************************************************************)
(* The rows the box-score extractors return: the grids of the gcscraper    *)
(* with rows whose name span is empty, and the generic grid of             *)
(* scrape_gc_schedules.py.                                                 *)
(***************************************************************************)
MaxNameRows == 2

NameShapes == {"complete", "no name span", "empty name"}

\* row i of a lineup or pitching grid in a shape
NamedRow(i, shape) ==
    [first   |-> TRUE,
     named   |-> shape # "no name span",
     name    |-> IF shape = "complete" THEN GridPlayers[i] ELSE <<>>,
     pos     |-> <<>>,
     cells   |-> <<TIP30, TFour, TTwo, TTwo, TOne, TThree>>,
     missing |-> {}]

\* the ag-cell-value texts of a row of the generic grid: a name or none, a
\* count or innings pitched, and five or four more cells
AgRows ==
    {<<name, second>> \o more :
        name \in {TJaneDoe, <<>>}, second \in {TFour, TIP52},
        more \in {<<TThree, TOne, TOne, TTwo, TFour>>, <<TThree, TOne, TOne, TTwo>>}}

\* the lineup and pitching containers of the gcscraper's box score
NamedContainers ==
    {[kind    |-> k,
      present |-> TRUE,
      rows    |-> [i \in 1..Len(shapes) |-> NamedRow(i, shapes[i])],
      extra   |-> NoExtra] :
        k \in {"batting", "pitching"}, shapes \in SeqsUpTo(NameShapes, MaxNameRows)}

\* the first grid of the box-score page scrape_gc_schedules.py reads
AgContainers ==
    {[kind |-> "grid", present |-> TRUE, rows |-> rows, extra |-> NoExtra] :
        rows \in SeqsUpTo(AgRows, MaxNameRows)}

RowsInit ==
    /\ \/ lineup \in NamedContainers
       \/ lineup \in AgContainers
    /\ GCTeams = {}
    /\ TOURNAMENT_TEAMS = <<>>
    /\ result = NoResult
    /\ page = <<>>
    /\ GCGamesTmp4 = {}
    /\ GCBattingStatsTmp4 = <<>>
    /\ GCPitchingStatsTmp4 = <<>>
    /\ prog = ""
    /\ pc = "idle"
    /\ url_i = 0
    /\ games = <<>>
    /\ g_i = 0
    /\ runs = 0
    /\ derived = {}
    /\ game_insert = "none"
    /\ all_games = <<>>

\* parse_box_score of scrape_gc_schedules.py on the first grid of a page
ParseGrid ==
    /\ lineup.kind = "grid"
    /\ result' = [op   |-> "parse_box_score",
                  rows |-> parse_box_score_grid([agGrid |-> lineup])]
    /\ UNCHANGED <<scraperVars, inputs>>

RowsNext ==
    \/ GridBatting
    \/ GridPitching
    \/ ParseGrid

SpecRows == RowsInit /\ [][RowsNext]_vars

\* the grid rows with the seven cells of a stat row
StatGridRows ==
    LET is_stat(cells) == Len(cells) >= 7
    IN  SelectSeq(lineup.rows, is_stat)

HasPoint(cells) == \E i \in 1..Len(cells[2]) : cells[2][i] = "."

\* C23: the decimal point of the second cell separates the rows of the
\* generic grid: the pitching rows returned are the stat rows whose second
\* cell has a decimal point, in order, and none of them is returned as a
\* batting row too, so the batting rows are at most the other stat rows.
C23_DecimalPointSeparates ==
    result.op = "parse_box_score" =>
        LET pointed == SelectSeq(StatGridRows, HasPoint)
        IN  /\ Len(result.rows.pitching) = Len(pointed)
            /\ \A i \in 1..Len(pointed) :
                  /\ result.rows.pitching[i].PitcherName = pointed[i][1]
                  /\ result.rows.pitching[i].IP = pointed[i][2]
            /\ Len(result.rows.batting) + Len(pointed) <= Len(StatGridRows)

\* the player names of the rows an extractor returned
ReturnedNames ==
    IF result.op = "parse_box_score"
    THEN {result.rows.batting[i].PlayerName : i \in 1..Len(result.rows.batting)}
         \cup {result.rows.pitching[i].PitcherName : i \in 1..Len(result.rows.pitching)}
    ELSE IF result.op = "extract_batting"
    THEN {result.rows[i].PlayerName : i \in 1..Len(result.rows)}
    ELSE IF result.op = "extract_pitching"
    THEN {result.rows[i].PitcherName : i \in 1..Len(result.rows)}
    ELSE {}

\* C24: every batting and pitching row the box-score extractors return has
\* a non-empty player name.
C24_NamedRowsOnly == <<>> \notin ReturnedNames

(***************************************************************************)
(* api_team_hitting on a batting table with the rows of two scraped teams, *)
(* of their opponents, and rows scrape_gc_schedules.py stored (no          *)
(* TeamMatch).                                                             *)
(***************************************************************************)
RowOrigins == {"own", "opponent", "other team", "legacy"}

SummedLines ==
    {<<0, 1, 0, 0, 1, 0, 0, 0, 0, 1>>,
     <<6, 2, 5, 3, 0, 1, 1, 1, 0, 1>>,
     <<6, 3, 5, 4, 1, 0, 1, 0, 1, 0>>}

\* a stored batting row by where it came from
OriginRow(name, origin, st) ==
    [HittingRow(name, origin = "own", st) EXCEPT
        !.TeamID    = IF origin \in {"own", "legacy"} THEN "teamA"
                      ELSE IF origin = "other team" THEN "teamB" ELSE "",
        !.TeamMatch = IF origin \in {"own", "other team"} THEN "Yes"
                      ELSE IF origin = "legacy" THEN NoneStr ELSE "No"]

OriginRows ==
    {OriginRow(name, origin, st) :
        name \in {TJaneDoe, TBoRay}, origin \in RowOrigins, st \in SummedLines}

TeamHittingInit ==
    /\ GCBattingStatsTmp4 \in SeqsUpTo(OriginRows, MaxBattingRows)
    /\ result = NoResult
    /\ page = <<>>
    /\ GCGamesTmp4 = {}
    /\ GCPitchingStatsTmp4 = <<>>
    /\ prog = ""
    /\ pc = "idle"
    /\ url_i = 0
    /\ games = <<>>
    /\ g_i = 0
    /\ runs = 0
    /\ derived = {}
    /\ game_insert = "none"
    /\ all_games = <<>>
    /\ lineup = NoContainer
    /\ GCTeams = {}
    /\ TOURNAMENT_TEAMS = <<>>

TeamHittingNext == ApiTeamHitting

SpecTeamHitting == TeamHittingInit /\ [][TeamHittingNext]_vars

\* the names of the players with a row of the team in the table
OwnNames(team_id) ==
    {GCBattingStatsTmp4[i].PlayerName : i \in
        {k \in 1..Len(GCBattingStatsTmp4) :
            /\ GCBattingStatsTmp4[k].TeamID = team_id
            /\ GCBattingStatsTmp4[k].TeamMatch = "Yes"}}

\* the response keys and the columns they sum
SummedColumns ==
    [AB |-> "AB", R |-> "R", H |-> "H", RBI |-> "RBI", BB |-> "BB", SO |-> "SO",
     HR |-> "HomeRuns", SB |-> "StolenBases"]
    @@ ("2B" :> "Doubles") @@ ("3B" :> "Triples")

\* C25: the team-hitting summary of a team_id has one entry per distinct
\* player name among the stored rows with that TeamID and TeamMatch 'Yes',
\* and each of AB, R, H, RBI, BB, SO, 2B, 3B, HR, SB of an entry is the sum
\* over exactly those rows of the player; a request without team_id is
\* answered with an error and no summary.
C25_TeamHittingSums ==
    result.op = "api_team_hitting" =>
        IF result.team_id = ""
        THEN result.response.status = 400 /\ result.response.players = <<>>
        ELSE /\ result.response.status = 200
             /\ Len(result.response.players) = Cardinality(OwnNames(result.team_id))
             /\ {result.response.players[i].name : i \in 1..Len(result.response.players)}
                    = OwnNames(result.team_id)
             /\ \A i \in 1..Len(result.response.players) :
                   \A k \in DOMAIN SummedColumns :
                      result.response.players[i][k]
                          = ColumnSum(OwnRows(result.team_id, result.response.players[i].name),
                                      SummedColumns[k])

\* the table has a row of Jane Doe for teamA and a row of Jane Doe for
\* teamB; the summary of teamA has her once, with the first row's numbers
C25_Witness ==
    /\ result.op = "api_team_hitting"
    /\ result.team_id = "teamA"
    /\ Len(GCBattingStatsTmp4) = 2
    /\ GCBattingStatsTmp4[1].TeamID = "teamA" /\ GCBattingStatsTmp4[1].TeamMatch = "Yes"
    /\ GCBattingStatsTmp4[2].TeamID = "teamB" /\ GCBattingStatsTmp4[2].TeamMatch = "Yes"
    /\ GCBattingStatsTmp4[1].PlayerName = TJaneDoe
    /\ GCBattingStatsTmp4[2].PlayerName = TJaneDoe
    /\ GCBattingStatsTmp4[1].AB = 6 /\ GCBattingStatsTmp4[2].AB = 6
    /\ Len(result.response.players) = 1
    /\ result.response.players[1].AB = 6

(***************************************************************************)
(* parse_box_score of the gcscraper on box-score pages with and without    *)
(* team-name headers and containers.                                       *)
(***************************************************************************)
\* a container of the page, or none where the selector finds nothing
ContainerOrNone(c, there) == IF there THEN c ELSE NoContainer

\* the box-score pages: BoxPage with each header and container there or not
BoxPages ==
    {[awayTeamName |-> names[1],
      homeTeamName |-> names[2],
      awayLineup   |-> ContainerOrNone(BoxPage.awayLineup, there[1]),
      homeLineup   |-> ContainerOrNone(BoxPage.homeLineup, there[2]),
      awayPitching |-> ContainerOrNone(BoxPage.awayPitching, there[3]),
      homePitching |-> ContainerOrNone(BoxPage.homePitching, there[4]),
      agGrid       |-> BoxPage.agGrid] :
        names \in {"Away Nine", ""} \X {"Home Nine", ""},
        there \in [1..4 -> BOOLEAN]}

\* home_id and away_id as main passes them: the scraped team on one side,
\* the empty opponent id on the other
BoxSides == {[home_id |-> "teamA", away_id |-> ""], [home_id |-> "", away_id |-> "teamA"]}

BoxInit ==
    /\ page \in BoxPages
    /\ result = NoResult
    /\ GCGamesTmp4 = {}
    /\ GCBattingStatsTmp4 = <<>>
    /\ GCPitchingStatsTmp4 = <<>>
    /\ prog = ""
    /\ pc = "idle"
    /\ url_i = 0
    /\ games = <<>>
    /\ g_i = 0
    /\ runs = 0
    /\ derived = {}
    /\ game_insert = "none"
    /\ all_games = <<>>
    /\ lineup = NoContainer
    /\ GCTeams = {}
    /\ TOURNAMENT_TEAMS = <<>>

\* parse_box_score(html, home_id, away_id, game_id) on the page
ParseBoxScore ==
    /\ \E sd \in BoxSides :
          result' = [op      |-> "parse_box_score",
                     home_id |-> sd.home_id,
                     away_id |-> sd.away_id,
                     game_id |-> GameIdOf("2025-10-15", sd.home_id, sd.away_id),
                     res     |-> parse_box_score(page, sd.home_id, sd.away_id,
                                                 GameIdOf("2025-10-15", sd.home_id, sd.away_id))]
    /\ UNCHANGED <<scraperVars, inputs>>

BoxNext == ParseBoxScore

SpecBox == BoxInit /\ [][BoxNext]_vars

\* every row of a list carries the game, the side and the two names
RowsCarry(rows, game_id, team_id, team_name, opponent_name) ==
    \A i \in 1..Len(rows) :
        /\ rows[i].GameID = game_id
        /\ rows[i].TeamID = team_id
        /\ rows[i].TeamName = team_name
        /\ rows[i].Opponent = opponent_name

\* C26: every row parse_box_score returns carries the given game_id, the
\* team id and the resolved team name of its own side, and as Opponent the
\* resolved name of the other side: the home team's name on away rows, the
\* away team's name on home rows.
C26_OpponentIsOtherSide ==
    result.op = "parse_box_score" =>
        /\ RowsCarry(result.res.away_batting, result.game_id, result.away_id,
                     page.awayTeamName, page.homeTeamName)
        /\ RowsCarry(result.res.away_pitching, result.game_id, result.away_id,
                     page.awayTeamName, page.homeTeamName)
        /\ RowsCarry(result.res.home_batting, result.game_id, result.home_id,
                     page.homeTeamName, page.awayTeamName)
        /\ RowsCarry(result.res.home_pitching, result.game_id, result.home_id,
                     page.homeTeamName, page.awayTeamName)

\* a page with both headers and all four containers: rows of all four lists
C26_Witness ==
    /\ result.op = "parse_box_score"
    /\ result.home_id = "teamA"
    /\ page.awayTeamName = "Away Nine"
    /\ page.homeTeamName = "Home Nine"
    /\ Len(result.res.away_batting) = 1
    /\ Len(result.res.home_batting) = 1
    /\ Len(result.res.away_pitching) = 1
    /\ Len(result.res.home_pitching) = 1
    /\ result.res.away_batting[1].Opponent = "Home Nine"
    /\ result.res.home_pitching[1].Opponent = "Away Nine"

(***************************************************************************)
(* The schedule entries of a run and their records in the games table.     *)
(***************************************************************************)
\* the entries of the schedule at hand whose games INSERT has been executed
InsertedEntries ==
    IF pc = "box" THEN 1..g_i
    ELSE IF pc = "game" THEN 1..(g_i - 1)
    ELSE {}

\* the entries among them the page lists as different games
DistinctEntries ==
    IF prog = "gcscraper"
    THEN {games[i].box_score_url : i \in InsertedEntries}
    ELSE {games[i].url : i \in InsertedEntries}

\* the records of the games table a scraper wrote
RecordsOf(p) ==
    IF p = "gcscraper" THEN SourcedGames ELSE GCGamesTmp4 \ SourcedGames

\* C27: every schedule entry of the scraped team has its own record in the
\* games table: the entries of the schedule processed so far, which the
\* page lists as different games, have as many records, and for the
\* gcscraper each entry has the record with its box-score url.
C27_EntryHasOwnRecord ==
    /\ Cardinality(RecordsOf(prog)) >= Cardinality(DistinctEntries)
    /\ prog = "gcscraper" =>
          \A i \in InsertedEntries :
              \E r \in GCGamesTmp4 : r.BoxScoreURL = games[i].box_score_url

(***************************************************************************)
(* The scores of a schedule entry, from the page to the team summary.      *)
(***************************************************************************)
\* what one stored game adds to the summary of the team it was scraped for
CreditOf(r) == AggregateRow(ZeroStats, r, r.SourceTeamID)

\* the entries of the schedule at hand a record was stored from: those
\* with its box-score url, and with scores
ScoredEntriesOf(r) ==
    {i \in 1..Len(games) :
        /\ games[i].box_score_url = r.BoxScoreURL
        /\ games[i].our_score # NULL
        /\ games[i].opp_score # NULL}

\* C28: scores keep their sides from the schedule to the summary: a game
\* the gcscraper stored with scores from an entry with (our_score,
\* opp_score), whatever the entry's home/away flag, adds our_score to RS
\* and opp_score to RA of the scraped team, one game, and a win exactly
\* when our_score > opp_score.
C28_ScoresKeepSides ==
    prog = "gcscraper" =>
        \A r \in SourcedGames : \A i \in ScoredEntriesOf(r) :
            (r.HomeScore # NULL /\ r.AwayScore # NULL) =>
                /\ CreditOf(r).RS = games[i].our_score
                /\ CreditOf(r).RA = games[i].opp_score
                /\ CreditOf(r).G = 1
                /\ CreditOf(r).W = 1 <=> games[i].our_score > games[i].opp_score
                /\ CreditOf(r).W = 0 <=> games[i].our_score <= games[i].opp_score

\* an entry without home/away flag, won 7-3, is stored and the one game of
\* the table: the summary of the team has RS 7, RA 3 and the win
C28_Witness ==
    /\ prog = "gcscraper"
    /\ Cardinality(GCGamesTmp4) = 1
    /\ \E r \in SourcedGames : \E i \in ScoredEntriesOf(r) :
          /\ games[i].home_or_away = NoneStr
          /\ games[i].our_score = 7
          /\ games[i].opp_score = 3
          /\ aggregate_team_stats_by_id(GCGamesTmp4, r.SourceTeamID)
                 = [G |-> 1, W |-> 1, L |-> 0, RS |-> 7, RA |-> 3]

(***************************************************************************)
(* One game on the schedules of both of its teams.                         *)
(***************************************************************************)
\* two Games of the collected list are one real game, read from the
\* schedule of each of its teams: same game id, the schedule team of one is
\* the opponent of the other, status and scores mirrored
SameRealGame(a, b) ==
    /\ a.game_id = b.game_id
    /\ normalize_team_name(a.home_team) = normalize_team_name(b.away_team)
    /\ normalize_team_name(a.away_team) = normalize_team_name(b.home_team)
    /\ a.status = b.status
    /\ a.home_score = b.away_score
    /\ a.away_score = b.home_score

\* C29: a real game counts once per team: when the collected list holds
\* the same game once per schedule of its two teams, the totals are those
\* of the list with the game taken once.
C29_RealGameCountedOnce ==
    result.op = "build_team_totals" =>
        \A i \in 1..Len(all_games) : \A j \in 1..Len(all_games) :
            (i < j /\ SameRealGame(all_games[i], all_games[j]))
                => result.teams = build_team_totals(Without(all_games, j))

(***************************************************************************)
(* Conservation of the threat-board totals.                                *)
(***************************************************************************)
\* the sum of one column over the teams of S
RECURSIVE SumColumn(_, _, _)
SumColumn(teams, S, field) ==
    IF S = {} THEN 0
    ELSE LET t == CHOOSE x \in S : TRUE
         IN  teams[t][field] + SumColumn(teams, S \ {t}, field)

ColumnTotal(teams, field) == SumColumn(teams, DOMAIN teams, field)

\* the games of the list the totals count: final status, both scores known
CountedGame(g) == Lower(g.status) = LFinal /\ KnownGame(g)

CountedGames == SelectSeq(all_games, CountedGame)

\* C30: the totals of build_team_totals are conserved: W + L <= G for each
\* team, and over all teams the wins equal the losses, the runs scored
\* equal the runs allowed, and the games are twice the counted games.
C30_TotalsConserved ==
    result.op = "build_team_totals" =>
        /\ \A t \in DOMAIN result.teams :
              result.teams[t].W + result.teams[t].L <= result.teams[t].G
        /\ ColumnTotal(result.teams, "W") = ColumnTotal(result.teams, "L")
        /\ ColumnTotal(result.teams, "RS") = ColumnTotal(result.teams, "RA")
        /\ ColumnTotal(result.teams, "G") = 2 * Len(CountedGames)

\* totals of a list with a decided game, a tie and nothing else
C30_Witness ==
    /\ result.op = "build_team_totals"
    /\ Len(all_games) = 2
    /\ Len(CountedGames) = 2
    /\ \E i \in 1..2 : all_games[i].home_score > all_games[i].away_score
    /\ \E i \in 1..2 : all_games[i].home_score = all_games[i].away_score
    /\ ColumnTotal(result.teams, "W") = 1
    /\ ColumnTotal(result.teams, "G") = 4

====
